---------------------------- MODULE Spec2Model ----------------------------
(***************************************************************************)
(* A model of alntools: BGZF-aware chunking of a BAM file                  *)
(* (bam_utils.calculate_chunks / chunk_file / split_bam), the read -> EC   *)
(* aggregators (bam_utils.process_piece, bam_utils_multisample.            *)
(* process_convert_bam), the merges of the two convert() functions and     *)
(* the multi-sample minimum-count filter.                                  *)
(*                                                                         *)
(* Modelling conventions                                                   *)
(*  - A BGZF file is a sequence of blocks [kind, recs].  kind is "hdr"     *)
(*    (BAM header text), "data" (alignment records) or "eof" (the empty    *)
(*    28-byte block).  Raw (compressed) offsets are in bytes; a block      *)
(*    takes EofLen bytes of framing plus one byte per payload unit.  An    *)
(*    alignment record is one payload unit of uncompressed data, so an     *)
(*    intra-block offset counts the records before it (htslib never lets   *)
(*    a record straddle two blocks).                                       *)
(*  - Python strings are sequences of one-character strings, so that       *)
(*    sorted() on tid strings is the lexicographic order it is in Python.  *)
(*  - dict / OrderedDict are sequences of [k, v] entries in insertion      *)
(*    order, and are iterated in that order.                               *)
(*  - A query name of the multi-sample code, "<id>|||..|||<CR>|||..", is a *)
(*    record [id, cr, sp]; sp says that a space and a comment follow, so   *)
(*    that cutting a name at its first space is [name EXCEPT !.sp = FALSE].*)
(*  - The pool's processes are run one after the other, in the order in    *)
(*    which pool.map / pool.imap hand their results to the coordinator.    *)
(*  - Python's None is a value of the kind it stands in for: NoVO for a    *)
(*    virtual offset, NoAln for an alignment (next() raised StopIteration),*)
(*    NoName for a read name, NoTid for a tid string.                      *)
(***************************************************************************)
EXTENDS Integers, Sequences, FiniteSets, TLC

VARIABLES
    pc,             \* position of the coordinator / worker code
    bam,            \* the source BAM file (single-sample and split)
    num_chunks,     \* the number of chunks asked for
    num_processes,  \* multiprocessing.cpu_count(), then the size of the pool
    chunks,         \* what calculate_chunks returned
    files,          \* split_bam: the sub-BAMs written so far; multi-sample: the *.bam files of the directory;
                    \* single-sample: the temp sub-BAMs of temp_dir, by chunk id
    all_params,     \* per worker: the list of chunk ids (MPParams.data) or the BAM file (ConvertParams)
    wid,            \* the worker (process) that is running
    w,              \* the running worker's local variables
    results,        \* what the workers returned, in pool.map / pool.imap order
    final,          \* the coordinator's merged result
    minimum_count   \* multi-sample convert: the minimum_count parameter

vars == <<pc, bam, num_chunks, num_processes, chunks, files, all_params, wid, w,
          results, final, minimum_count>>

NoVO == -1
NoAln == [eof |-> TRUE]
NoName == 0
NoTid == <<>>

-----------------------------------------------------------------------------
(* Bounds of the model.                                                    *)

\* split: data blocks of the source BAM, and records per block
MaxSplitBlocks == 4
MaxBlockRecs == 2

\* single-sample convert: data blocks and alignments of the source BAM,
\* and the CPUs of the machine
MaxSingleBlocks == 3
MaxSingleAlns == 4
MaxCpus == 2

\* multi-sample convert: BAM files of the directory, alignments over all
\* of them, and the largest minimum_count
MaxFiles == 2
MaxMultiAlns == 4
MaxMinimumCount == 2

\* fix_bam on its own: the number of calls on one file
MaxFixCalls == 2

\* conversions of damaged inputs: the number of alignments
MaxFaultyAlns == 3

-----------------------------------------------------------------------------
(* Generic helpers.                                                        *)

Range(s) == {s[i] : i \in DOMAIN s}

Last(s) == s[Len(s)]

Min2(a, b) == IF a < b THEN a ELSE b

Max2(a, b) == IF a > b THEN a ELSE b

RECURSIVE Concat(_)
Concat(ss) == IF ss = <<>> THEN <<>> ELSE Head(ss) \o Concat(Tail(ss))

RECURSIVE SumSeq(_)
SumSeq(s) == IF s = <<>> THEN 0 ELSE Head(s) + SumSeq(Tail(s))

\* first position of x in s (list.index); 0 when absent
IndexOf(s, x) == IF \E i \in DOMAIN s : s[i] = x
                 THEN CHOOSE i \in DOMAIN s : s[i] = x /\ \A j \in 1..(i-1) : s[j] # x
                 ELSE 0

-----------------------------------------------------------------------------
(* BGZF files.                                                             *)

\* len(BAM_EOF): the empty BGZF block, and the framing of every block
EofLen == 28

EofBlock == [kind |-> "eof", recs |-> <<>>]
\* the reference names (@SQ lines) of the header, by tid 0..10:
\* "<main_target>_<haplotype>"
References ==
    << <<"T", "0", "_", "A">>, <<"T", "0", "_", "B">>, <<"T", "1", "_", "A">>,
       <<"T", "1", "_", "B">>, <<"T", "2", "_", "A">>, <<"T", "2", "_", "B">>,
       <<"T", "2", "_", "C">>, <<"T", "3", "_", "A">>, <<"T", "3", "_", "B">>,
       <<"T", "3", "_", "C">>, <<"T", "1", "_", "C">> >>

\* the header block holds the reference names
Header(references) == [kind |-> "hdr", recs |-> references]
HdrBlock == Header(References)

\* AlignmentFile(f).references
references(f) == IF f # <<>> /\ Head(f).kind = "hdr" THEN Head(f).recs ELSE <<>>

\* the header of f alone, as an open AlignmentFile keeps it
HeaderOf(f) == IF f # <<>> /\ Head(f).kind = "hdr" THEN <<Head(f)>> ELSE <<>>

\* AlignmentFile(f).getrname(tid)
getrname(f, tid) == references(f)[tid + 1]

\* AlignmentFile(f).gettid(name): -1 for a name the header does not have
gettid(f, name) ==
    IF \E i \in DOMAIN references(f) : references(f)[i] = name
    THEN (CHOOSE i \in DOMAIN references(f) : references(f)[i] = name) - 1
    ELSE -1
DataBlock(recs) == [kind |-> "data", recs |-> recs]

\* uncompressed payload length of a block (ISIZE)
DataLen(b) == IF b.kind = "hdr" THEN 1 ELSE Len(b.recs)

\* raw length of a block (BSIZE + 1); a block of kind "cut" has lost its
\* last 28 bytes
BlockLen(b) == IF b.kind = "cut" THEN DataLen(b) ELSE EofLen + DataLen(b)

\* raw offset of block i (1-based) of file f; RawStart(f, Len(f)+1) is the file size
RECURSIVE RawStart(_, _)
RawStart(f, i) == IF i <= 1 THEN 0 ELSE RawStart(f, i - 1) + BlockLen(f[i - 1])

FileSize(f) == RawStart(f, Len(f) + 1)

\* FastBgzfBlocks: (start_offset, block_length, data_start, data_len) of every block
RECURSIVE DataStart(_, _)
DataStart(f, i) == IF i <= 1 THEN 0 ELSE DataStart(f, i - 1) + DataLen(f[i - 1])

\* a faulty variant of FastBgzfBlocks: the block length in the place of
\* the data length
BlockLenForDataLen(f) ==
    [i \in 1..Len(f) |-> <<RawStart(f, i), BlockLen(f[i]), DataStart(f, i), BlockLen(f[i])>>]

FastBgzfBlocks(f) ==
    [i \in 1..Len(f) |-> <<RawStart(f, i), BlockLen(f[i]), DataStart(f, i), DataLen(f[i])>>]

\* bgzf.make_virtual_offset / bgzf.split_virtual_offset
make_virtual_offset(block_start, within) == block_start * (2^16) + within
split_virtual_offset(vo) == <<vo \div (2^16), vo % (2^16)>>

\* the (1-based) block of f that starts at raw offset off; 0 when none does
BlockAt(f, off) ==
    IF \E i \in 1..Len(f) : RawStart(f, i) = off
    THEN CHOOSE i \in 1..Len(f) : RawStart(f, i) = off
    ELSE 0

\* does the file end with the 28 bytes of BAM_EOF
EndsWithEof(f) == Len(f) > 0 /\ Last(f) = EofBlock

-----------------------------------------------------------------------------
(* pysam.AlignmentFile on a BGZF file: tell / seek / next.                 *)

\* AlignmentFile(filename).tell() right after opening: the first record
\* after the header block(s)
FirstDataBlock(f) ==
    IF \E i \in 1..Len(f) : f[i].kind # "hdr"
    THEN CHOOSE i \in 1..Len(f) : f[i].kind # "hdr" /\ \A j \in 1..(i-1) : f[j].kind = "hdr"
    ELSE Len(f) + 1

OpenTell(f) == make_virtual_offset(RawStart(f, FirstDataBlock(f)), 0)

\* next() at virtual offset vo: the record there, or NoAln at the end of the
\* data (StopIteration); htslib takes an empty block for the end of file
AlnAt(f, vo) ==
    LET p == split_virtual_offset(vo)
        b == BlockAt(f, p[1])
    IN  IF b = 0 \/ f[b].kind # "data" \/ p[2] >= Len(f[b].recs)
        THEN NoAln
        ELSE f[b].recs[p[2] + 1]

\* tell() after the record at vo was read: htslib moves to offset 0 of the
\* next block as soon as a block is consumed
TellAfter(f, vo) ==
    LET p == split_virtual_offset(vo)
        b == BlockAt(f, p[1])
    IN  IF p[2] + 1 >= Len(f[b].recs)
        THEN make_virtual_offset(RawStart(f, b + 1), 0)
        ELSE make_virtual_offset(p[1], p[2] + 1)

\* every alignment a reader streams from f: the records of the data blocks
\* up to the first empty block
RECURSIVE StreamFrom(_, _)
StreamFrom(f, i) ==
    IF i > Len(f) \/ f[i].kind = "eof" THEN <<>>
    ELSE IF f[i].kind = "hdr" THEN StreamFrom(f, i + 1)
    ELSE f[i].recs \o StreamFrom(f, i + 1)

StreamAlignments(f) == StreamFrom(f, 1)

-----------------------------------------------------------------------------
(* Bio.bgzf reader / writer and the byte-copy helpers of chunk_file.       *)

\* the blocks of f whose raw start lies in [lo, hi): the raw byte range
\* [lo, hi) of a file, for ranges that start and end on block boundaries
RawRange(f, lo, hi) ==
    LET keep == {i \in 1..Len(f) : lo <= RawStart(f, i) /\ RawStart(f, i) < hi}
    IN  IF keep = {} THEN <<>>
        ELSE LET a == CHOOSE i \in keep : \A j \in keep : i <= j
                 b == CHOOSE i \in keep : \A j \in keep : j <= i
             IN  SubSeq(f, a, b)

\* BgzfReader.seek(vo); read(size): size payload units from vo on, running
\* into the following blocks when the block is exhausted
RECURSIVE ReadUnits(_, _, _, _)
ReadUnits(f, b, within, size) ==
    IF size <= 0 \/ b = 0 \/ b > Len(f) \/ f[b].kind # "data" THEN <<>>
    ELSE LET have == SubSeq(f[b].recs, within + 1, Len(f[b].recs))
         IN  IF size <= Len(have) THEN SubSeq(have, 1, size)
             ELSE have \o ReadUnits(f, b + 1, 0, size - Len(have))

BgzfRead(f, vo, size) ==
    LET p == split_virtual_offset(vo)
    IN  ReadUnits(f, BlockAt(f, p[1]), p[2], size)

\* BgzfWriter(new_filename, mode="a"); write(data); close(): the data as
\* one block (none for no data) and then the EOF block close() always adds
BgzfAppend(f, data) ==
    f \o (IF data = <<>> THEN <<>> ELSE <<DataBlock(data)>>) \o <<EofBlock>>

\* utils.truncate_file(fname, 28): the last 28 bytes are cut off
truncate_bam_file(f) ==
    IF f = <<>> THEN f
    ELSE IF Last(f) = EofBlock THEN SubSeq(f, 1, Len(f) - 1)
    ELSE Append(SubSeq(f, 1, Len(f) - 1), [kind |-> "cut", recs |-> Last(f).recs])

\* utils.bytes_from_file(bam_filename, new_filename, 0, header_size) on a
\* new file: the bytes [offset, offset + size) of the source
bytes_from_file(f, offset, size) == RawRange(f, offset, offset + size)

\* bytes_from_file_bam: read bytes_size bytes at offset (everything to the
\* end of the file unless bytes_size > 0) and write them over a trailing
\* EOF block of the target, or at its end
bytes_from_file_bam(f, new, offset, bytes_size) ==
    LET data == IF bytes_size > 0
                THEN RawRange(f, offset, offset + bytes_size)
                ELSE RawRange(f, offset, FileSize(f))
    IN  IF EndsWithEof(new) /\ data # <<>>
        THEN SubSeq(new, 1, Len(new) - 1) \o data
        ELSE new \o data

\* data != BAM_HEADER: the file does not start with the 16 bytes every BGZF
\* block starts with
NotBam(f) == f = <<>>

\* a faulty variant of fix_bam: the EOF block is appended without a look at
\* the last 28 bytes
AlwaysAppend(f) == Append(f, EofBlock)

\* fix_bam on a file that starts like a BGZF file: append the EOF block
\* unless the file ends with it
fix_bam(f) == IF EndsWithEof(f) THEN f ELSE Append(f, EofBlock)

-----------------------------------------------------------------------------
(* calculate_chunks.                                                       *)

NoPlan == [kind |-> "none", recs |-> <<>>]

\* [[0, -1]]: what num_chunks == 1 returns, a list and no ParseRecord
WholeFile == [kind |-> "whole", recs |-> <<[list |-> <<0, -1>>]>>]

ParseRecord(header_size, begin_read_offset, begin_read_size, file_offset, file_bytes, end_read_offset, end_read_size) ==
    [header_size |-> header_size,
     begin_read_offset |-> begin_read_offset, begin_read_size |-> begin_read_size,
     file_offset |-> file_offset, file_bytes |-> file_bytes,
     end_read_offset |-> end_read_offset, end_read_size |-> end_read_size]

\* the while loop: tell() before every next(), up to the first record whose
\* qname differs; NoVO when next() runs off the end (StopIteration)
RECURSIVE ScanRun(_, _, _)
ScanRun(f, vo, qname) ==
    LET aln == AlnAt(f, vo)
    IN  IF aln = NoAln THEN NoVO
        ELSE IF aln.qname # qname THEN vo
        ELSE ScanRun(f, TellAfter(f, vo), qname)

\* seek(virtual_offset); aln_first = next(); then the while loop
AdjustedBoundary(f, virtual_offset) ==
    LET aln_first == AlnAt(f, virtual_offset)
    IN  IF aln_first = NoAln THEN NoVO
        ELSE ScanRun(f, TellAfter(f, virtual_offset), aln_first.qname)

\* partitioned_offsets, as virtual offsets (0-based i); NoVO where the
\* exception handler would be entered
PartitionedOffset(f, n, i) ==
    LET nb == Len(f)
        index == (nb \div n) * i + Min2(i, nb % n)
    IN  IF i = 0 THEN OpenTell(f)
        ELSE IF index + 1 > nb THEN NoVO
        ELSE AdjustedBoundary(f, make_virtual_offset(RawStart(f, index + 1), 0))

\* the ParseRecord of chunk i (0-based) from the partitioned offsets po
\* (1-based sequence of (block start, within) pairs), or the reason why
\* there is none: the early return after printing HUH, or an IndexError
ChunkRecord(f, n, po, i) ==
    LET blocks == FastBgzfBlocks(f)
        header_size == po[1][1]
        index == BlockAt(f, po[i + 1][1])
        offset == po[i + 1]
    IN  IF i = 0 THEN
            ParseRecord(header_size, 0, 0, blocks[index][1],
                        po[i + 2][1] - blocks[index][1],
                        make_virtual_offset(po[i + 2][1], 0), po[i + 2][2])
        ELSE IF index + 1 > Len(f) THEN [error |-> "IndexError"]
        ELSE IF i = n - 1 THEN
            ParseRecord(header_size, make_virtual_offset(offset[1], offset[2]),
                        blocks[index][4] - offset[2], blocks[index + 1][1], -1, 0, 0)
        ELSE IF offset[2] = 0 THEN [error |-> "HUH"]
        ELSE
            ParseRecord(header_size, make_virtual_offset(offset[1], offset[2]),
                        blocks[index][4] - offset[2], blocks[index + 1][1],
                        po[i + 2][1] - blocks[index + 1][1],
                        make_virtual_offset(po[i + 2][1], 0), po[i + 2][2])

calculate_chunks(f, n) ==
    IF n = 1 THEN WholeFile
    ELSE LET vos == [i \in 1..n |-> PartitionedOffset(f, n, i - 1)]
         IN  IF \E i \in 1..n : vos[i] = NoVO THEN NoPlan
             ELSE LET po == [i \in 1..n |-> split_virtual_offset(vos[i])]
                      recs == [i \in 1..n |-> ChunkRecord(f, n, po, i - 1)]
                  IN  IF \E i \in 1..n : "error" \in DOMAIN recs[i] THEN NoPlan
                      ELSE [kind |-> "plan", recs |-> recs]

-----------------------------------------------------------------------------
(* chunk_file.                                                             *)

\* what chunk_file leaves: the new file, or the exception it raised (a
\* plan entry that is no ParseRecord has no header_size)
Raised(e) == [error |-> e, file |-> <<>>]
Written(f) == [error |-> "", file |-> f]

chunk_file(f, parse_rec) ==
    IF "header_size" \notin DOMAIN parse_rec THEN Raised("AttributeError")
    ELSE
    LET new1 == bytes_from_file(f, 0, parse_rec.header_size)
        new2 == IF parse_rec.begin_read_offset > 0
                THEN truncate_bam_file(BgzfAppend(new1,
                        BgzfRead(f, parse_rec.begin_read_offset, parse_rec.begin_read_size)))
                ELSE new1
        new3 == bytes_from_file_bam(f, new2, parse_rec.file_offset, parse_rec.file_bytes)
        new4 == IF parse_rec.end_read_offset > 0
                THEN BgzfAppend(new3,
                        BgzfRead(f, parse_rec.end_read_offset, parse_rec.end_read_size))
                ELSE new3
    IN  IF NotBam(new4) THEN Raised("SystemExit") ELSE Written(fix_bam(new4))

-----------------------------------------------------------------------------
(* Source BAM files of the model: a header block, data blocks of whole     *)
(* alignment records grouped by read name, the EOF block.                  *)

\* read names of a name-grouped stream of n records: 1, then the same or
\* the next name
RECURSIVE NameSeqs(_)
NameSeqs(n) ==
    IF n = 0 THEN {<<>>}
    ELSE IF n = 1 THEN {<<1>>}
    ELSE UNION {{Append(s, Last(s)), Append(s, Last(s) + 1)} : s \in NameSeqs(n - 1)}

\* block sizes (each 1..maxRecs, at most maxBlocks blocks) that hold n records
RECURSIVE Layouts(_, _, _)
Layouts(n, maxBlocks, maxRecs) ==
    IF n = 0 THEN {<<>>}
    ELSE IF maxBlocks = 0 THEN {}
    ELSE UNION {{<<k>> \o l : l \in Layouts(n - k, maxBlocks - 1, maxRecs)} :
                k \in 1..Min2(n, maxRecs)}

RECURSIVE Blockify(_, _)
Blockify(stream, layout) ==
    IF layout = <<>> THEN <<>>
    ELSE <<DataBlock(SubSeq(stream, 1, Head(layout)))>>
         \o Blockify(SubSeq(stream, Head(layout) + 1, Len(stream)), Tail(layout))

MakeBam(stream, layout) == <<HdrBlock>> \o Blockify(stream, layout) \o <<EofBlock>>

Aln(qname, tid, unmapped) == [qname |-> qname, tid |-> tid, is_unmapped |-> unmapped]

SplitBams ==
    UNION {UNION {{MakeBam([i \in 1..n |-> Aln(names[i], 0, FALSE)], layout) :
                    layout \in Layouts(n, MaxSplitBlocks, MaxBlockRecs)} :
                  names \in NameSeqs(n)} :
           n \in 1..(MaxSplitBlocks * MaxBlockRecs)}

-----------------------------------------------------------------------------
(* Python strings, lists and dictionaries.                                 *)

DigitChars == <<"0", "1", "2", "3", "4", "5", "6", "7", "8", "9">>

\* str(n) for n >= 0
RECURSIVE str(_)
str(n) == IF n < 10 THEN <<DigitChars[n + 1]>>
          ELSE str(n \div 10) \o <<DigitChars[(n % 10) + 1]>>

\* ord(c) for the characters of an EC key or of a reference name
Ord(c) ==
    CASE c = "," -> 44
      [] c = "_" -> 95
      [] c = "A" -> 65
      [] c = "B" -> 66
      [] c = "C" -> 67
      [] c = "T" -> 84
      [] OTHER -> 47 + (CHOOSE i \in 1..10 : DigitChars[i] = c)

\* str(n) for any n
strInt(n) == IF n < 0 THEN <<"-">> \o str(-n) ELSE str(n)

\* a < b for two strings
RECURSIVE StrLess(_, _)
StrLess(a, b) ==
    IF b = <<>> THEN FALSE
    ELSE IF a = <<>> THEN TRUE
    ELSE IF Head(a) # Head(b) THEN Ord(Head(a)) < Ord(Head(b))
    ELSE StrLess(Tail(a), Tail(b))

\* sorted(list) of strings (stable)
RECURSIVE Insert(_, _)
Insert(sortedList, x) ==
    IF sortedList = <<>> THEN <<x>>
    ELSE IF StrLess(x, Head(sortedList)) THEN <<x>> \o sortedList
    ELSE <<Head(sortedList)>> \o Insert(Tail(sortedList), x)

RECURSIVE sorted(_)
sorted(list) ==
    IF list = <<>> THEN <<>> ELSE Insert(sorted(SubSeq(list, 1, Len(list) - 1)), Last(list))

\* sep.join(list)
RECURSIVE join(_, _)
join(sep, list) ==
    IF list = <<>> THEN <<>>
    ELSE IF Len(list) = 1 THEN Head(list)
    ELSE Head(list) \o sep \o join(sep, Tail(list))

\* s.rfind(c): the 0-based index of the last c in s, or -1
rfind(s, c) ==
    IF \E i \in DOMAIN s : s[i] = c
    THEN (CHOOSE i \in DOMAIN s : s[i] = c /\ \A j \in DOMAIN s : s[j] = c => j <= i) - 1
    ELSE -1

\* s[:i], where a negative i counts from the end
SliceTo(s, i) ==
    IF i < 0 THEN SubSeq(s, 1, Len(s) + i) ELSE SubSeq(s, 1, i)

\* s[i:] for i >= 0
SliceFrom(s, i) == SubSeq(s, i + 1, Len(s))

\* '{}_{}'.format(a, b)
Format(a, b) == a \o <<"_">> \o b

\* s.split(sep) for a one-character sep
RECURSIVE split(_, _)
split(s, sep) ==
    IF \E i \in DOMAIN s : s[i] = sep
    THEN LET i == CHOOSE i \in DOMAIN s : s[i] = sep /\ \A j \in 1..(i - 1) : s[j] # sep
         IN  <<SubSeq(s, 1, i - 1)>> \o split(SubSeq(s, i + 1, Len(s)), sep)
    ELSE <<s>>

\* x in list
In(x, list) == \E i \in DOMAIN list : list[i] = x

\* dictionaries: entries [k, v] in insertion order
Keys(d) == [i \in DOMAIN d |-> d[i].k]
Has(d, key) == \E i \in DOMAIN d : d[i].k = key
Get(d, key) == d[CHOOSE i \in DOMAIN d : d[i].k = key].v
GetOr(d, key, default) == IF Has(d, key) THEN Get(d, key) ELSE default
Put(d, key, value) ==
    IF Has(d, key)
    THEN [i \in DOMAIN d |-> IF d[i].k = key THEN [k |-> key, v |-> value] ELSE d[i]]
    ELSE Append(d, [k |-> key, v |-> value])

\* d[key] += n, with d[key] = n for a new key
Incr(d, key, n) == Put(d, key, GetOr(d, key, 0) + n)

-----------------------------------------------------------------------------
(* process_piece: the single-sample aggregator.                            *)

\* ','.join(sorted(target_ids)); a TypeError when the list holds None
JoinRaises(target_ids) == In(NoTid, target_ids)
EcKey(target_ids) == join(<<",">>, sorted(target_ids))

\* a faulty variant of NextIdx: indexes counted from 1
LenPlusOne(ec_idx) == Len(ec_idx) + 1

\* len(ec_idx), the index a new key gets
NextIdx(ec_idx) == Len(ec_idx)

\* ec[ec_key] += 1, or ec[ec_key] = 1 and ec_idx[ec_key] = len(ec_idx)
CountEc(l, ec_key) ==
    IF Has(l.ec, ec_key)
    THEN [l EXCEPT !.ec = Incr(l.ec, ec_key, 1)]
    ELSE [l EXCEPT !.ec = Put(l.ec, ec_key, 1),
                   !.ec_idx = Put(l.ec_idx, ec_key, NextIdx(l.ec_idx))]

\* reference_sequence_name[:idx_underscore], idx_underscore = rfind('_')
MainTarget(reference_sequence_name) ==
    SliceTo(reference_sequence_name, rfind(reference_sequence_name, "_"))

\* reference_sequence_name[idx_underscore+1:]
Haplotype(reference_sequence_name) ==
    SliceFrom(reference_sequence_name, rfind(reference_sequence_name, "_") + 1)

\* tmp[main_target] = main_target for every reference of the header
RECURSIVE TmpTargets(_, _)
TmpTargets(tmp, targets) ==
    IF targets = <<>> THEN tmp
    ELSE TmpTargets(IF Has(tmp, MainTarget(Head(targets))) THEN tmp
                    ELSE Put(tmp, MainTarget(Head(targets)), MainTarget(Head(targets))),
                    Tail(targets))

\* the locals of process_piece before its loop over mp.data (no target
\* file: main_targets are the sorted main targets of the header, each
\* with its index)
PieceLocals(input_file, data) ==
    LET main_targets_tmp == sorted(Keys(TmpTargets(<<>>, references(input_file))))
    IN
    [mode |-> "single", data |-> data, k |-> 1, stream |-> <<>>, sam_file |-> <<>>,
     main_targets |-> [i \in DOMAIN main_targets_tmp |-> [k |-> main_targets_tmp[i], v |-> i - 1]],
     haplotypes |-> {}, target_idx_to_main_target |-> <<>>,
     ec |-> <<>>, ec_idx |-> <<>>, unique_tids |-> <<>>, unique_reads |-> <<>>,
     read_id_switch_counter |-> 0, same_read_target_counter |-> 0,
     all_alignments |-> 0, valid_alignments |-> 0,
     tid |-> NoTid, target_ids |-> <<>>, read_id |-> NoName, error |-> ""]

\* the body of the while loop for one alignment
PieceAlignment(l, alignment) ==
    LET l1 == [l EXCEPT !.all_alignments = @ + 1]
    IN  IF alignment.is_unmapped THEN l1
        ELSE
        LET reference_sequence_name == getrname(l.sam_file, alignment.tid)
            tid == str(alignment.tid)
            read_id == IF l.read_id = NoName THEN alignment.qname ELSE l.read_id
            l2 == [l1 EXCEPT !.valid_alignments = @ + 1,
                             !.tid = tid,
                             !.unique_tids = Incr(@, tid, 1),
                             !.target_idx_to_main_target =
                                 Put(@, tid, MainTarget(reference_sequence_name)),
                             !.haplotypes = @ \cup {Haplotype(reference_sequence_name)},
                             !.read_id = read_id,
                             !.unique_reads = Incr(@, read_id, 1)]
        IN  IF read_id # alignment.qname
            THEN [CountEc(l2, EcKey(l.target_ids)) EXCEPT
                     !.read_id = alignment.qname,
                     !.target_ids = <<tid>>,
                     !.read_id_switch_counter = @ + 1]
            ELSE IF ~In(tid, l.target_ids)
            THEN [l2 EXCEPT !.target_ids = Append(@, tid)]
            ELSE [l2 EXCEPT !.same_read_target_counter = @ + 1]

\* after StopIteration: the last tid once more, the EC of the last read,
\* then the next entry of mp.data
PieceEndOfFile(l) ==
    LET l1 == IF ~In(l.tid, l.target_ids)
              THEN [l EXCEPT !.target_ids = Append(@, l.tid)]
              ELSE [l EXCEPT !.same_read_target_counter = @ + 1]
    IN  IF JoinRaises(l1.target_ids)
        THEN [l1 EXCEPT !.error = "TypeError"]
        ELSE [CountEc(l1, EcKey(l1.target_ids)) EXCEPT !.k = @ + 1]

\* sam_file = pysam.AlignmentFile(temp_file) on the file chunk_file wrote
PieceOpen(l, f, parse_rec) ==
    LET new == chunk_file(f, parse_rec)
    IN  IF new.error # "" THEN [l EXCEPT !.error = new.error]
        ELSE [l EXCEPT !.stream = StreamAlignments(new.file),
                       !.sam_file = HeaderOf(new.file),
                       !.read_id = NoName]

\* sorted(list(haplotypes)) of a set of strings
RECURSIVE SortedSet(_)
SortedSet(S) ==
    IF S = {} THEN <<>>
    ELSE LET x == CHOOSE x \in S : \A y \in S : ~StrLess(y, x)
         IN  <<x>> \o SortedSet(S \ {x})

\* haplotypes = sorted(list(haplotypes)); ret = ConvertResults() ...
PieceResult(l) ==
    [main_targets |-> l.main_targets, ec |-> l.ec, ec_idx |-> l.ec_idx,
     haplotypes |-> SortedSet(l.haplotypes),
     target_idx_to_main_target |-> l.target_idx_to_main_target,
     unique_tids |-> l.unique_tids, unique_reads |-> l.unique_reads]

-----------------------------------------------------------------------------
(* split_bam: plan, then chunk_file for every chunk in order.              *)

Idle == [state |-> "idle"]

SplitInit ==
    /\ bam \in SplitBams
    /\ num_chunks \in 1..(MaxSplitBlocks + 2)
    /\ num_chunks <= Len(bam)
    /\ pc = "plan"
    /\ chunks = NoPlan
    /\ files = <<>>
    /\ num_processes = 0
    /\ all_params = <<>>
    /\ wid = 0
    /\ w = Idle
    /\ results = <<>>
    /\ final = Idle
    /\ minimum_count = 0

\* chunks = calculate_chunks(bam_filename, number_files); enumerate(None)
\* raises when the planner gave up
SplitPlan ==
    /\ pc = "plan"
    /\ chunks' = calculate_chunks(bam, num_chunks)
    /\ pc' = IF chunks'.kind = "none" THEN "crash" ELSE "split"
    /\ UNCHANGED <<bam, num_chunks, num_processes, files, all_params, wid, w,
                   results, final, minimum_count>>

\* one turn of the loop: chunk_file(bam_filename, new_file, chunk)
SplitChunk ==
    /\ pc = "split"
    /\ Len(files) < Len(chunks.recs)
    /\ LET new == chunk_file(bam, chunks.recs[Len(files) + 1])
       IN  IF new.error # ""
           THEN pc' = "crash" /\ files' = files
           ELSE pc' = pc /\ files' = Append(files, new.file)
    /\ UNCHANGED <<bam, num_chunks, num_processes, chunks, all_params, wid, w,
                   results, final, minimum_count>>

SplitDone ==
    /\ pc = "split"
    /\ Len(files) = Len(chunks.recs)
    /\ pc' = "done"
    /\ UNCHANGED <<bam, num_chunks, num_processes, chunks, files, all_params, wid, w,
                   results, final, minimum_count>>

SpecSplit == SplitInit /\ [][SplitPlan \/ SplitChunk \/ SplitDone]_vars

-----------------------------------------------------------------------------
(* fix_bam on its own, called again and again on one file.                 *)

\* BGZF files to repair: whole BAMs, BAMs without their EOF block, and
\* BAMs that lost the EOF block and the last 28 bytes before it
FixInit ==
    /\ \E f \in SplitBams :
          bam \in {f, SubSeq(f, 1, Len(f) - 1), truncate_bam_file(SubSeq(f, 1, Len(f) - 1))}
    /\ pc = "fix"
    /\ files = <<>>
    /\ num_chunks = 0
    /\ chunks = NoPlan
    /\ num_processes = 0
    /\ all_params = <<>>
    /\ wid = 0
    /\ w = Idle
    /\ results = <<>>
    /\ final = Idle
    /\ minimum_count = 0

\* fix_bam(filename); files keeps what the file was before each call
FixBam ==
    /\ pc = "fix"
    /\ Len(files) < MaxFixCalls
    /\ files' = Append(files, bam)
    /\ IF NotBam(bam)
       THEN bam' = bam /\ pc' = "exit"
       ELSE bam' = fix_bam(bam) /\ pc' = pc
    /\ UNCHANGED <<num_chunks, num_processes, chunks, all_params, wid, w,
                   results, final, minimum_count>>

SpecFix == FixInit /\ [][FixBam]_vars

-----------------------------------------------------------------------------
(* bam_utils.convert: the single-sample coordinator.                       *)

\* the tids alignments refer to
Tids == {2, 10}

\* the source BAMs of a conversion: name-grouped records, mapped to one of
\* Tids or unmapped
FlagSeqs(n) == [1..n -> Tids \cup {-1}]

SingleBams ==
    UNION {UNION {UNION {{MakeBam([i \in 1..n |->
                                     Aln(names[i], IF tf[i] = -1 THEN 0 ELSE tf[i], tf[i] = -1)],
                                  layout) :
                          layout \in Layouts(n, MaxSingleBlocks, MaxBlockRecs)} :
                        tf \in FlagSeqs(n)} :
                  names \in NameSeqs(n)} :
           n \in 1..MaxSingleAlns}

\* utils.partition(lst, n): n contiguous spans of nearly equal length
partition(lst, n) ==
    LET q == Len(lst) \div n
        r == Len(lst) % n
        at(i) == q * i + Min2(i, r)
    IN  [i \in 1..n |-> SubSeq(lst, at(i - 1) + 1, at(i))]

\* num_chunks as convert uses it
EffectiveChunks(n, cpu_count) ==
    IF n <= 0 THEN cpu_count ELSE IF n > 1000 THEN 1000 ELSE n

\* final = ConvertResults() with its empty tables
SingleFinal ==
    [init |-> FALSE, n |-> 0, ec |-> <<>>, ec_idx |-> <<>>, haplotypes |-> <<>>,
     main_targets |-> <<>>, target_idx_to_main_target |-> <<>>, unique_reads |-> <<>>,
     mappings |-> <<>>]

\* a faulty variant of AddCount: the later count replaces the earlier one
TakeNew(old, v) == v

\* += of a merged count
AddCount(old, v) == old + v

\* the loop "combine ec" over the entries of result.ec
RECURSIVE CombineEc(_, _)
CombineEc(fin, entries) ==
    IF entries = <<>> THEN fin
    ELSE LET e == Head(entries)
             fin1 == IF Has(fin.ec, e.k)
                     THEN [fin EXCEPT !.ec = Put(@, e.k, AddCount(Get(fin.ec, e.k), e.v))]
                     ELSE [fin EXCEPT !.ec = Put(@, e.k, e.v),
                                      !.ec_idx = Put(@, e.k, NextIdx(fin.ec_idx))]
         IN  CombineEc(fin1, Tail(entries))

\* the loop "unique reads"
RECURSIVE CombineReads(_, _)
CombineReads(fin, entries) ==
    IF entries = <<>> THEN fin
    ELSE CombineReads([fin EXCEPT !.unique_reads = Incr(@, Head(entries).k, Head(entries).v)],
                      Tail(entries))

\* the loop "combine target_idx_to_main_target"
RECURSIVE CombineTargets(_, _)
CombineTargets(fin, entries) ==
    IF entries = <<>> THEN fin
    ELSE CombineTargets(IF Has(fin.target_idx_to_main_target, Head(entries).k) THEN fin
                        ELSE [fin EXCEPT !.target_idx_to_main_target =
                                             Put(@, Head(entries).k, Head(entries).v)],
                        Tail(entries))

\* one turn of "for idx, result in enumerate(results)"; "combine
\* haplotypes" is sorted(list(s1.union(s2)))
CombineResult(fin, result) ==
    IF ~fin.init
    THEN [init |-> TRUE, n |-> fin.n + 1, ec |-> result.ec, ec_idx |-> result.ec_idx,
          haplotypes |-> result.haplotypes, main_targets |-> result.main_targets,
          target_idx_to_main_target |-> result.target_idx_to_main_target,
          unique_reads |-> result.unique_reads, mappings |-> <<>>]
    ELSE [CombineReads(
              CombineTargets([CombineEc(fin, result.ec) EXCEPT
                                 !.haplotypes = SortedSet(Range(@) \cup Range(result.haplotypes))],
                             result.target_idx_to_main_target),
              result.unique_reads) EXCEPT !.n = @ + 1]

\* utils.list_to_int(bits): bit position 0 is the first entry of the list
RECURSIVE list_to_int(_)
list_to_int(bits) ==
    IF bits = <<>> THEN 0 ELSE Head(bits) + 2 * list_to_int(Tail(bits))

\* temp_main_targets of an EC key
TempMainTargets(target_idx_to_main_target, arr_target_idx) ==
    {Get(target_idx_to_main_target, arr_target_idx[i]) : i \in DOMAIN arr_target_idx}

\* read_transcript_idx in arr_target_idx, for '<main_target>_<hap>'
InKey(alignment_file, read_transcript, arr_target_idx) ==
    In(strInt(gettid(alignment_file, read_transcript)), arr_target_idx)

\* the mapping section of the version 1 file: one triple per EC and main
\* target of it (in the order Python iterates the set temp_main_targets)
\* (bits holds one entry per haplotype of the main target)
Mappings(fin, alignment_file) ==
    UNION {LET arr_target_idx == split(fin.ec[e].k, ",")
               bits(main_target) ==
                   [i \in DOMAIN fin.haplotypes |->
                       IF InKey(alignment_file, Format(main_target, fin.haplotypes[i]),
                                arr_target_idx)
                       THEN 1 ELSE 0]
           IN  {[ec_idx |-> Get(fin.ec_idx, fin.ec[e].k),
                 main_target |-> Get(fin.main_targets, main_target),
                 bitmask |-> list_to_int(bits(main_target))] :
                main_target \in TempMainTargets(fin.target_idx_to_main_target,
                                                arr_target_idx)} :
           e \in DOMAIN fin.ec}

\* headers of the single-sample BAMs: every reference name with its
\* haplotype suffix, or the name of tid 10 without its "_", or without
\* the haplotype after it
SingleInit ==
    /\ \E f \in SingleBams,
          refs \in {References,
                    [References EXCEPT ![11] = <<"T", "1", "C">>],
                    [References EXCEPT ![11] = <<"T", "1", "_">>]} :
          bam = <<Header(refs)>> \o Tail(f)
    /\ num_processes \in 1..MaxCpus
    /\ num_chunks \in 0..MaxSingleBlocks
    /\ EffectiveChunks(num_chunks, num_processes) <= Len(bam)
    /\ pc = "s_plan"
    /\ chunks = NoPlan
    /\ files = <<>>
    /\ all_params = <<>>
    /\ wid = 0
    /\ w = Idle
    /\ results = <<>>
    /\ final = SingleFinal
    /\ minimum_count = 0

\* chunks = calculate_chunks(...); len(chunks) raises when there is no
\* plan; one MPParams per span of chunk ids
SPlan ==
    /\ pc = "s_plan"
    /\ num_chunks' = EffectiveChunks(num_chunks, num_processes)
    /\ chunks' = calculate_chunks(bam, num_chunks')
    /\ IF chunks'.kind = "none"
       THEN pc' = "s_crash" /\ UNCHANGED <<all_params, wid>>
       ELSE /\ pc' = "s_spawn"
            /\ all_params' = partition([i \in 1..num_chunks' |-> i - 1], num_processes)
            /\ wid' = 1
    /\ UNCHANGED <<bam, num_processes, files, w, results, final, minimum_count>>

\* a pool process enters process_piece
SSpawn ==
    /\ pc = "s_spawn"
    /\ w' = PieceLocals(bam, all_params[wid])
    /\ pc' = "s_chunk"
    /\ UNCHANGED <<bam, num_chunks, num_processes, chunks, files, all_params, wid,
                   results, final, minimum_count>>

\* "for file_info_data in mp.data": the next chunk is cut out and opened,
\* or the loop is over; an exception of chunk_file ends the loop.
\* files[idx + 1] is the temp file '_bam2ec.<idx>.bam' of temp_dir, <<>>
\* while there is no such file: utils.delete_file(temp_file), then
\* chunk_file writes it
SChunk ==
    /\ pc = "s_chunk"
    /\ IF w.k > Len(w.data)
       THEN w' = w /\ pc' = "s_return" /\ files' = files
       ELSE LET idx == w.data[w.k]
                new == chunk_file(bam, chunks.recs[idx + 1])
            IN  /\ w' = PieceOpen(w, bam, chunks.recs[idx + 1])
                /\ pc' = IF w'.error # "" THEN "s_return" ELSE "s_read"
                /\ files' = [i \in 1..Max2(Len(files), idx + 1) |->
                                IF i = idx + 1 THEN new.file
                                ELSE IF i <= Len(files) THEN files[i] ELSE <<>>]
    /\ UNCHANGED <<bam, num_chunks, num_processes, chunks, all_params, wid,
                   results, final, minimum_count>>

\* alignment = sam_file.next() and the loop body
SAlignment ==
    /\ pc = "s_read"
    /\ w.stream # <<>>
    /\ w' = [PieceAlignment(w, Head(w.stream)) EXCEPT !.stream = Tail(w.stream)]
    /\ UNCHANGED <<pc, bam, num_chunks, num_processes, chunks, files, all_params, wid,
                   results, final, minimum_count>>

\* sam_file.next() raises StopIteration; utils.delete_file(temp_file) is
\* the last statement of the loop body, not reached when ','.join raises
SEndOfFile ==
    /\ pc = "s_read"
    /\ w.stream = <<>>
    /\ w' = PieceEndOfFile(w)
    /\ pc' = IF w'.error # "" THEN "s_return" ELSE "s_chunk"
    /\ files' = IF w'.error # "" THEN files ELSE [files EXCEPT ![w.data[w.k] + 1] = <<>>]
    /\ UNCHANGED <<bam, num_chunks, num_processes, chunks, all_params, wid,
                   results, final, minimum_count>>

\* process_piece returns; pool.map hands out the next MPParams
SReturn ==
    /\ pc = "s_return"
    /\ results' = Append(results, PieceResult(w))
    /\ w' = Idle
    /\ IF wid < num_processes
       THEN wid' = wid + 1 /\ pc' = "s_spawn"
       ELSE wid' = wid /\ pc' = "s_merge"
    /\ UNCHANGED <<bam, num_chunks, num_processes, chunks, files, all_params,
                   final, minimum_count>>

\* "for idx, result in enumerate(results)"
SMerge ==
    /\ pc = "s_merge"
    /\ final.n < Len(results)
    /\ final' = CombineResult(final, results[final.n + 1])
    /\ UNCHANGED <<pc, bam, num_chunks, num_processes, chunks, files, all_params, wid, w,
                   results, minimum_count>>

\* the version 1 file is written (emase = False)
SDone ==
    /\ pc = "s_merge"
    /\ final.n = Len(results)
    /\ final' = [final EXCEPT !.mappings = Mappings(final, bam)]
    /\ pc' = "s_done"
    /\ UNCHANGED <<bam, num_chunks, num_processes, chunks, files, all_params, wid, w,
                   results, minimum_count>>

SingleNext ==
    SPlan \/ SSpawn \/ SChunk \/ SAlignment \/ SEndOfFile \/ SReturn \/ SMerge \/ SDone

SpecSingle == SingleInit /\ [][SingleNext]_vars

-----------------------------------------------------------------------------
(* process_convert_bam: the multi-sample aggregator.                       *)
(* A query name "<id>|||x|||<cr>|||..." is [id, cr, sp]; sp says that the  *)
(* name goes on with a space and a comment.                                *)

NoQueryName == [id |-> 0, cr |-> "", sp |-> FALSE]

\* i = name.find(' '); if i > 0: name = name[:i]
TruncateAtSpace(name) == [name EXCEPT !.sp = FALSE]

\* the cr of a query name that has fewer than three "|||"-separated fields
NoCR == "-"

\* query_name.split('|||')[2]; an IndexError when there is no third field
BamTagCR(name) == name.cr

\* a faulty variant of CountedCR: the CR of the alignment that ends the read
FollowingCR(query_name, alignment) == BamTagCR(alignment.query_name)

\* bam_tag_CR = bam_tags[2] of query_name, taken before query_name is set
\* to the name of the alignment at hand
CountedCR(query_name, alignment) == BamTagCR(query_name)

\* a faulty variant of PairedSkip: read 2 of a proper pair is let through
PairedSkipButRead2(alignment) ==
    alignment.is_paired /\
        (~alignment.is_proper_pair
           \/ alignment.reference_id # alignment.next_reference_id
           \/ alignment.next_reference_start < 0)

\* the paired-end test that skips an alignment
PairedSkip(alignment) ==
    alignment.is_paired /\
        (alignment.is_read2 \/ ~alignment.is_proper_pair
           \/ alignment.reference_id # alignment.next_reference_id
           \/ alignment.next_reference_start < 0)

\* params.track_ranges = (range_filename != None): the conversions of the
\* model are given a range file
track_ranges == TRUE

\* a faulty variant of TrackRange: the range is that of the latest alignment
TrackRangeLatest(ranges, reference_id, reference_start) ==
    Put(ranges, reference_id, <<reference_start, reference_start>>)

\* ranges.get(reference_id, (100000000000, -1)) widened by reference_start;
\* a reference_start is within 0..100000000000, so that the default widens
\* to (reference_start, reference_start)
TrackRange(ranges, reference_id, reference_start) ==
    IF Has(ranges, reference_id)
    THEN Put(ranges, reference_id, <<Min2(Get(ranges, reference_id)[1], reference_start),
                                     Max2(Get(ranges, reference_id)[2], reference_start)>>)
    ELSE Put(ranges, reference_id, <<reference_start, Max2(-1, reference_start)>>)

\* ec[ec_key][bam_tag_CR] += 1 on the defaultdict of defaultdicts
CountEcCR(ec, ec_key, cr) == Put(ec, ec_key, Incr(GetOr(ec, ec_key, <<>>), cr, 1))

\* the locals of process_convert_bam before its loop
ConvertLocals(f) ==
    [mode |-> "multi", stream |-> StreamAlignments(f),
     ec |-> <<>>, unique_reads |-> <<>>,
     read_id_switch_counter |-> 0, same_read_target_counter |-> 0,
     all_alignments |-> 0, valid_alignments |-> 0,
     reference_id |-> NoTid, reference_ids |-> <<>>, query_name |-> NoQueryName,
     ranges |-> <<>>, error |-> ""]

\* the body of the while loop for one alignment
ConvertAlignment(l, alignment) ==
    LET l1 == [l EXCEPT !.all_alignments = @ + 1]
    IN  IF alignment.is_unmapped THEN l1
        ELSE IF PairedSkip(alignment) THEN l1
        ELSE
        LET reference_id == str(alignment.reference_id)
            query_name == IF l.query_name = NoQueryName
                          THEN TruncateAtSpace(alignment.query_name)
                          ELSE l.query_name
            bam_tag_CR == CountedCR(query_name, alignment)
            alignment_query_name == TruncateAtSpace(alignment.query_name)
            l2 == [l1 EXCEPT !.valid_alignments = @ + 1,
                             !.reference_id = reference_id,
                             !.ranges = IF track_ranges
                                        THEN TrackRange(@, reference_id, alignment.reference_start)
                                        ELSE @,
                             !.query_name = query_name,
                             !.unique_reads = Incr(@, query_name, 1)]
        IN  IF BamTagCR(query_name) = NoCR THEN [l2 EXCEPT !.error = "IndexError"]
            ELSE IF query_name # alignment_query_name
            THEN [l2 EXCEPT !.ec = CountEcCR(@, EcKey(l.reference_ids), bam_tag_CR),
                            !.query_name = alignment.query_name,
                            !.reference_ids = <<reference_id>>,
                            !.read_id_switch_counter = @ + 1]
            ELSE IF ~In(reference_id, l.reference_ids)
            THEN [l2 EXCEPT !.reference_ids = Append(@, reference_id)]
            ELSE [l2 EXCEPT !.same_read_target_counter = @ + 1]

\* ret = ConvertResults() ... after StopIteration
ConvertResult(l) ==
    [ec |-> l.ec, valid_alignments |-> l.valid_alignments,
     all_alignments |-> l.all_alignments, unique_reads |-> l.unique_reads,
     tid_ranges |-> l.ranges]

-----------------------------------------------------------------------------
(* bam_utils_multisample.convert: the multi-sample coordinator.            *)

\* final, ec_idx, CRS, cr_totals and ec_totals before the first result
MultiFinal ==
    [init |-> FALSE, n |-> 0, ec |-> <<>>, valid_alignments |-> 0, all_alignments |-> 0,
     tid_ranges |-> <<>>,
     ec_idx |-> <<>>, CRS |-> <<>>, cr_totals |-> <<>>, ec_totals |-> <<>>, filtered |-> FALSE,
     summat |-> {}]

\* a faulty variant of FirstCR: the counts of the first result are not
\* added to cr_totals
FirstCRSkipTotals(fin, eckey, crkey, count) ==
    [fin EXCEPT !.CRS = IF Has(@, crkey) THEN @ ELSE Put(@, crkey, Len(@)),
                !.ec_totals = Incr(@, eckey, count)]

\* the first result: one (crkey, count) of final.ec[eckey]
FirstCR(fin, eckey, crkey, count) ==
    [fin EXCEPT !.CRS = IF Has(@, crkey) THEN @ ELSE Put(@, crkey, Len(@)),
                !.cr_totals = Incr(@, crkey, count),
                !.ec_totals = Incr(@, eckey, count)]

RECURSIVE FirstCRs(_, _, _)
FirstCRs(fin, eckey, crdict) ==
    IF crdict = <<>> THEN fin
    ELSE FirstCRs(FirstCR(fin, eckey, Head(crdict).k, Head(crdict).v), eckey, Tail(crdict))

\* the first result: "for eckey, crdict in final.ec.iteritems()"
RECURSIVE FirstEcs(_, _)
FirstEcs(fin, entries) ==
    IF entries = <<>> THEN fin
    ELSE LET e == Head(entries)
             fin1 == [fin EXCEPT !.ec = Put(@, e.k, e.v),
                                 !.ec_idx = Put(@, e.k, NextIdx(fin.ec_idx))]
         IN  FirstEcs(FirstCRs(fin1, e.k, e.v), Tail(entries))

\* a later result: one (crkey, count) of result.ec[eckey]
LaterCR(fin, eckey, crkey, count) ==
    LET crs1 == Put(fin.CRS, crkey, 1)
        crs2 == IF Has(crs1, crkey) THEN crs1 ELSE Put(crs1, crkey, Len(crs1))
        fin1 == [fin EXCEPT !.CRS = crs2,
                            !.cr_totals = Incr(@, crkey, count),
                            !.ec_totals = Incr(@, eckey, count)]
    IN  IF Has(fin.ec, eckey)
        THEN [fin1 EXCEPT !.ec = Put(@, eckey, Incr(Get(fin.ec, eckey), crkey, count))]
        ELSE [fin1 EXCEPT !.ec_idx = Put(@, eckey, NextIdx(fin.ec_idx)),
                          !.ec = Put(@, eckey, <<[k |-> crkey, v |-> count]>>)]

RECURSIVE LaterCRs(_, _, _)
LaterCRs(fin, eckey, crdict) ==
    IF crdict = <<>> THEN fin
    ELSE LaterCRs(LaterCR(fin, eckey, Head(crdict).k, Head(crdict).v), eckey, Tail(crdict))

RECURSIVE LaterEcs(_, _)
LaterEcs(fin, entries) ==
    IF entries = <<>> THEN fin
    ELSE LaterEcs(LaterCRs(fin, Head(entries).k, Head(entries).v), Tail(entries))

\* "if range_filename:" the tid_ranges of a later result
RECURSIVE CombineRanges(_, _)
CombineRanges(tid_ranges, entries) ==
    IF entries = <<>> THEN tid_ranges
    ELSE LET k == Head(entries).k
             v == Head(entries).v
         IN  CombineRanges(IF Has(tid_ranges, k)
                           THEN Put(tid_ranges, k, <<Min2(v[1], Get(tid_ranges, k)[1]),
                                                     Max2(v[2], Get(tid_ranges, k)[2])>>)
                           ELSE Put(tid_ranges, k, v),
                           Tail(entries))

\* one turn of "for idx, result in enumerate(pool.imap(...))"
CombineConvert(fin, result) ==
    IF ~fin.init
    THEN [FirstEcs([fin EXCEPT !.CRS = <<>>, !.ec = <<>>], result.ec) EXCEPT
             !.init = TRUE, !.n = @ + 1,
             !.valid_alignments = result.valid_alignments,
             !.all_alignments = result.all_alignments,
             !.tid_ranges = result.tid_ranges]
    ELSE [LaterEcs(fin, result.ec) EXCEPT
             !.n = @ + 1,
             !.valid_alignments = @ + result.valid_alignments,
             !.all_alignments = @ + result.all_alignments,
             !.tid_ranges = IF track_ranges THEN CombineRanges(@, result.tid_ranges) ELSE @]

\* a faulty variant of MeetsMinimum: the minimum itself is not enough
MoreThanMinimum(CR_total, min_count) == CR_total > min_count

\* "if CR_total >= minimum_count:"
MeetsMinimum(CR_total, min_count) == CR_total >= min_count

\* a faulty variant of KeepEc: an EC stays even when no CR of it is left
KeepAnyEc(ec) == TRUE

\* "if len(ec) > 0:" only then is the EC added to new_ecs
KeepEc(ec) == Len(ec) > 0

\* "find the new CRS": the CRs of cr_totals that meet the minimum
RECURSIVE FilterCRS(_, _)
FilterCRS(cr_totals, min_count) ==
    IF cr_totals = <<>> THEN <<>>
    ELSE LET rest == FilterCRS(SubSeq(cr_totals, 1, Len(cr_totals) - 1), min_count)
             e == Last(cr_totals)
         IN  IF MeetsMinimum(e.v, min_count) /\ ~Has(rest, e.k) THEN Put(rest, e.k, Len(rest)) ELSE rest

\* the CRs of one EC that are in the new CRS
RECURSIVE KeepCRs(_, _)
KeepCRs(crs, CRS) ==
    IF crs = <<>> THEN <<>>
    ELSE IF Has(CRS, Head(crs).k) THEN <<Head(crs)>> \o KeepCRs(Tail(crs), CRS)
    ELSE KeepCRs(Tail(crs), CRS)

\* "remove invalid CRS from ECs": acc is [ec, ec_idx]
RECURSIVE FilterEcs(_, _, _)
FilterEcs(acc, entries, CRS) ==
    IF entries = <<>> THEN acc
    ELSE LET ec == KeepCRs(Head(entries).v, CRS)
             acc1 == IF KeepEc(ec)
                     THEN [ec |-> Put(acc.ec, Head(entries).k, ec),
                           ec_idx |-> Put(acc.ec_idx, Head(entries).k, Len(acc.ec_idx))]
                     ELSE acc
         IN  FilterEcs(acc1, Tail(entries), CRS)

\* "if minimum_count > 0:" ...
FilterFinal(fin, min_count) ==
    LET CRS == FilterCRS(fin.cr_totals, min_count)
        new == FilterEcs([ec |-> <<>>, ec_idx |-> <<>>], fin.ec, CRS)
    IN  [fin EXCEPT !.CRS = CRS, !.ec = new.ec, !.ec_idx = new.ec_idx, !.filtered = TRUE]

\* the cell barcodes (CR) a read name carries; the first read's is "A"
CRs == {"A", "B"}

\* what the flags of an alignment say; all but "single" and "pair" are skipped
AlnKinds == {"single", "pair", "unmapped", "read2", "improper", "other_ref", "no_mate_pos"}

\* an alignment of a sample BAM as pysam presents it
MultiAln(id, cr, sp, tid, kind, pos) ==
    [query_name |-> [id |-> id, cr |-> cr, sp |-> sp],
     reference_id |-> tid,
     reference_start |-> pos,
     is_unmapped |-> kind = "unmapped",
     is_paired |-> kind \notin {"single", "unmapped"},
     is_read2 |-> kind = "read2",
     is_proper_pair |-> kind \in {"pair", "read2", "other_ref", "no_mate_pos"},
     next_reference_id |-> IF kind \in {"single", "unmapped"} THEN -1
                           ELSE IF kind = "other_ref" THEN tid + 1 ELSE tid,
     next_reference_start |-> IF kind \in {"pair", "read2", "improper", "other_ref"} THEN 0 ELSE -1]

\* the flags of a stream of n alignments: plain single-end alignments, but
\* for the one at pos (none when pos = 0), which is of another kind
KindSeq(n, pos, kind) == [i \in 1..n |-> IF i = pos THEN kind ELSE "single"]

\* the alignments of all the sample BAMs, one after the other; their
\* reference_start values (2, 4, 1, 3, ...) are in no order
MultiStream(names, crs, sp, tids, kinds) ==
    [i \in 1..Len(names) |->
        MultiAln(names[i], crs[names[i]], sp, tids[i], kinds[i], (2 * i) % 5)]

\* a sample BAM: header, the alignments, EOF
SampleBam(stream) ==
    <<HdrBlock>> \o (IF stream = <<>> THEN <<>> ELSE <<DataBlock(stream)>>) \o <<EofBlock>>

\* the *.bam files of the directory: the stream cut into at most MaxFiles files
RECURSIVE Directories(_, _)
Directories(stream, maxFiles) ==
    IF maxFiles = 1 THEN {<<SampleBam(stream)>>}
    ELSE {<<SampleBam(stream)>>} \cup
         UNION {{<<SampleBam(SubSeq(stream, 1, k))>> \o rest :
                    rest \in Directories(SubSeq(stream, k + 1, Len(stream)), maxFiles - 1)} :
                k \in 1..(Len(stream) - 1)}

\* validate_bam(filename): "" or the exception it raises
validate_bam(f) ==
    IF NotBam(f) THEN "not a BAM file"
    ELSE IF ~EndsWithEof(f) THEN "bad EOF"
    ELSE ""

MultiInit ==
    /\ \E n \in 1..MaxMultiAlns :
       \E names \in NameSeqs(n) :
       \E crs \in [1..Last(names) -> CRs] :
       \E tids \in [1..n -> Tids] :
       \E sp \in BOOLEAN :
       \E pos \in 0..(IF sp THEN 0 ELSE n) :
       \E kind \in IF pos = 0 THEN {"single"} ELSE AlnKinds \ {"single"} :
          /\ crs[1] = "A"
          /\ files \in Directories(MultiStream(names, crs, sp, tids, KindSeq(n, pos, kind)),
                                   MaxFiles)
    /\ minimum_count \in 0..MaxMinimumCount
    /\ num_processes = MaxCpus
    /\ pc = "m_plan"
    /\ bam = <<>>
    /\ num_chunks = 0
    /\ chunks = NoPlan
    /\ all_params = <<>>
    /\ wid = 0
    /\ w = Idle
    /\ results = <<>>
    /\ final = MultiFinal

\* bam_files = glob(...); one ConvertParams per file; the pool
MPlan ==
    /\ pc = "m_plan"
    /\ Len(files) > 0
    /\ num_processes' = Min2(num_processes, Len(files))
    /\ all_params' = files
    /\ wid' = 1
    /\ pc' = "m_spawn"
    /\ UNCHANGED <<bam, num_chunks, chunks, files, w, results, final, minimum_count>>

\* a pool process enters process_convert_bam: validate_bam, then the
\* AlignmentFile; an exception of the worker is raised again by pool.imap
MSpawn ==
    /\ pc = "m_spawn"
    /\ IF validate_bam(all_params[wid]) # ""
       THEN w' = [ConvertLocals(<<>>) EXCEPT !.error = validate_bam(all_params[wid])]
            /\ pc' = "m_crash"
       ELSE w' = ConvertLocals(all_params[wid]) /\ pc' = "m_read"
    /\ UNCHANGED <<bam, num_chunks, num_processes, chunks, files, all_params, wid,
                   results, final, minimum_count>>

\* alignment = alignment_file.next() and the loop body; only StopIteration
\* is caught, any other exception leaves process_convert_bam and is raised
\* again by pool.imap
MAlignment ==
    /\ pc = "m_read"
    /\ w.stream # <<>>
    /\ w' = [ConvertAlignment(w, Head(w.stream)) EXCEPT !.stream = Tail(w.stream)]
    /\ pc' = IF w'.error # "" THEN "m_crash" ELSE pc
    /\ UNCHANGED <<bam, num_chunks, num_processes, chunks, files, all_params, wid,
                   results, final, minimum_count>>

\* alignment_file.next() raises StopIteration; process_convert_bam returns
MReturn ==
    /\ pc = "m_read"
    /\ w.stream = <<>>
    /\ results' = Append(results, ConvertResult(w))
    /\ w' = Idle
    /\ pc' = "m_merge"
    /\ UNCHANGED <<bam, num_chunks, num_processes, chunks, files, all_params, wid,
                   final, minimum_count>>

\* one turn of "for idx, result in enumerate(pool.imap(...))"
MMerge ==
    /\ pc = "m_merge"
    /\ final' = CombineConvert(final, Last(results))
    /\ IF wid < Len(all_params)
       THEN wid' = wid + 1 /\ pc' = "m_spawn"
       ELSE wid' = wid /\ pc' = "m_filter"
    /\ UNCHANGED <<bam, num_chunks, num_processes, chunks, files, all_params, w,
                   results, minimum_count>>

\* target and haplotype of a reference name of the header of bam_files[0]
MultiTarget(reference_sequence_name) ==
    IF rfind(reference_sequence_name, "_") > 0
    THEN SliceTo(reference_sequence_name, rfind(reference_sequence_name, "_"))
    ELSE reference_sequence_name

MultiHaplotype(reference_sequence_name) ==
    IF rfind(reference_sequence_name, "_") > 0
    THEN SliceFrom(reference_sequence_name, rfind(reference_sequence_name, "_") + 1)
    ELSE <<>>

\* main_targets[target] = len(main_targets), in the order of the header
RECURSIVE MultiMainTargets(_, _)
MultiMainTargets(main_targets, targets) ==
    IF targets = <<>> THEN main_targets
    ELSE MultiMainTargets(IF Has(main_targets, MultiTarget(Head(targets))) THEN main_targets
                          ELSE Put(main_targets, MultiTarget(Head(targets)), Len(main_targets)),
                          Tail(targets))

\* haplotypes = sorted(list(haplotypes))
MultiHaplotypes(alignment_file) ==
    SortedSet({MultiHaplotype(references(alignment_file)[i]) :
                  i \in DOMAIN references(alignment_file)})

\* the entry of apm.data[h] at (ec_idx[k], main_targets[main_target])
\* (read_transcript is main_target, or '<main_target>_<hap>')
ApmData(alignment_file, haplotypes, h, main_target, arr_target_idx) ==
    LET hap == haplotypes[h + 1]
        read_transcript == IF Len(hap) = 0 THEN main_target ELSE Format(main_target, hap)
    IN  IF InKey(alignment_file, read_transcript, arr_target_idx) THEN 1 ELSE 0

\* a faulty variant of HapWeight: the weights of haplotypes 1.. start at 1
HapWeightFromOne(h) == 2 ^ (h - 1)

\* 2 ** h
HapWeight(h) == 2 ^ h

\* summat = apm.data[0] + sum of (2 ** h) * apm.data[h] for h >= 1: the
\* stored entries of the "A" matrix
Summat(fin, alignment_file) ==
    LET haplotypes == MultiHaplotypes(alignment_file)
        num_haps == Len(haplotypes)
        main_targets == MultiMainTargets(<<>>, references(alignment_file))
        target_idx_to_main_target ==
            [i \in DOMAIN references(alignment_file) |->
                [k |-> strInt(gettid(alignment_file, references(alignment_file)[i])),
                 v |-> MultiTarget(references(alignment_file)[i])]]
        value(main_target, arr) ==
            ApmData(alignment_file, haplotypes, 0, main_target, arr)
              + SumSeq([h \in 1..(num_haps - 1) |->
                           HapWeight(h) * ApmData(alignment_file, haplotypes, h, main_target, arr)])
    IN  UNION {LET arr_target_idx == split(fin.ec[e].k, ",")
               IN  {[ec_idx |-> Get(fin.ec_idx, fin.ec[e].k),
                     main_target |-> Get(main_targets, main_target),
                     bitmask |-> value(main_target, arr_target_idx)] :
                    main_target \in TempMainTargets(target_idx_to_main_target,
                                                    arr_target_idx)} :
               e \in DOMAIN fin.ec}

\* after the loop: max(ec_idx.values()) raises ValueError on an empty
\* ec_idx, before and after the filter "if minimum_count > 0:"; then the
\* APM and the summary matrix of the version 2 file
MFilter ==
    /\ pc = "m_filter"
    /\ IF final.ec_idx = <<>>
       THEN final' = final /\ pc' = "m_crash"
       ELSE LET fin == IF minimum_count > 0 THEN FilterFinal(final, minimum_count) ELSE final
            IN  IF fin.ec_idx = <<>>
                THEN final' = fin /\ pc' = "m_crash"
                ELSE final' = [fin EXCEPT !.summat = Summat(fin, files[1])] /\ pc' = "m_done"
    /\ UNCHANGED <<bam, num_chunks, num_processes, chunks, files, all_params, wid, w,
                   results, minimum_count>>

MultiNext == MPlan \/ MSpawn \/ MAlignment \/ MReturn \/ MMerge \/ MFilter

SpecMulti == MultiInit /\ [][MultiNext]_vars

-----------------------------------------------------------------------------
(* Both conversions.                                                       *)

Init == SingleInit \/ MultiInit

Next == SingleNext \/ MultiNext

Spec == Init /\ [][Next]_vars

-----------------------------------------------------------------------------
(* Both conversions on damaged inputs: BAM files that may lack their EOF   *)
(* block, and query names that may lack the "|||"-separated fields.        *)

\* f without its EOF block
DropEof(f) == IF EndsWithEof(f) THEN SubSeq(f, 1, Len(f) - 1) ELSE f

FaultySingleInit ==
    /\ \E n \in 1..MaxFaultyAlns :
       \E names \in NameSeqs(n) :
       \E layout \in Layouts(n, MaxSingleBlocks, MaxBlockRecs) :
       \E unmapped \in [1..n -> BOOLEAN] :
       \E eof \in BOOLEAN :
          LET f == MakeBam([i \in 1..n |-> Aln(names[i], IF unmapped[i] THEN 0 ELSE 2,
                                               unmapped[i])], layout)
          IN  bam = IF eof THEN f ELSE DropEof(f)
    /\ num_processes \in 1..MaxCpus
    /\ num_chunks \in 0..MaxSingleBlocks
    /\ EffectiveChunks(num_chunks, num_processes) <= Len(bam)
    /\ pc = "s_plan"
    /\ chunks = NoPlan
    /\ files = <<>>
    /\ all_params = <<>>
    /\ wid = 0
    /\ w = Idle
    /\ results = <<>>
    /\ final = SingleFinal
    /\ minimum_count = 0

FaultyMultiInit ==
    /\ \E n \in 1..MaxFaultyAlns :
       \E names \in NameSeqs(n) :
       \E crs \in [1..Last(names) -> {"A", NoCR}] :
       \E dir \in Directories(MultiStream(names, crs, FALSE, [i \in 1..n |-> 2],
                                          KindSeq(n, 0, "single")), MaxFiles) :
       \E eof \in [DOMAIN dir -> BOOLEAN] :
          files = [i \in DOMAIN dir |-> IF eof[i] THEN dir[i] ELSE DropEof(dir[i])]
    /\ minimum_count = 0
    /\ num_processes = MaxCpus
    /\ pc = "m_plan"
    /\ bam = <<>>
    /\ num_chunks = 0
    /\ chunks = NoPlan
    /\ all_params = <<>>
    /\ wid = 0
    /\ w = Idle
    /\ results = <<>>
    /\ final = MultiFinal

SpecFaulty == (FaultySingleInit \/ FaultyMultiInit) /\ [][Next]_vars

-----------------------------------------------------------------------------
(* The main-targets table of the two conversions on its own, for headers   *)
(* whose reference names come in any order.                                *)

MaxHeaderRefs == 3

\* headers of 1..MaxHeaderRefs distinct reference names
TargetsInit ==
    /\ \E n \in 1..MaxHeaderRefs :
       \E refs \in [1..n -> {References[i] : i \in 1..6}] :
          /\ \A i, j \in 1..n : refs[i] = refs[j] => i = j
          /\ bam = <<Header(refs), EofBlock>>
    /\ pc = "t_parse"
    /\ files = <<>>
    /\ num_chunks = 0
    /\ chunks = NoPlan
    /\ num_processes = 0
    /\ all_params = <<>>
    /\ wid = 0
    /\ w = Idle
    /\ results = <<>>
    /\ final = Idle
    /\ minimum_count = 0

\* bam_utils.convert: final.main_targets is ret.main_targets of the first
\* worker, which process_piece builds before it reads any chunk
TargetsSingle ==
    /\ pc = "t_parse"
    /\ final' = [main_targets |-> PieceResult(PieceLocals(bam, <<>>)).main_targets]
    /\ pc' = "t_single"
    /\ UNCHANGED <<bam, num_chunks, num_processes, chunks, files, all_params, wid, w,
                   results, minimum_count>>

\* bam_utils_multisample.convert: main_targets from the header of bam_files[0]
TargetsMulti ==
    /\ pc = "t_parse"
    /\ final' = [main_targets |-> MultiMainTargets(<<>>, references(bam))]
    /\ pc' = "t_multi"
    /\ UNCHANGED <<bam, num_chunks, num_processes, chunks, files, all_params, wid, w,
                   results, minimum_count>>

SpecTargets == TargetsInit /\ [][TargetsSingle \/ TargetsMulti]_vars

-----------------------------------------------------------------------------
(* FastBgzfBlocks / _quick_bgzf_load on the bytes of a BGZF file.  A block *)
(* is 12 bytes of gzip header (magic, mtime, flags, os, XLEN), XLEN bytes  *)
(* of extra subfields (4 bytes and its payload each; the "BC" subfield     *)
(* holds BSIZE, the size of the block minus 1), the deflate payload, and   *)
(* 8 bytes of trailer (CRC32, ISIZE).                                      *)

MaxScanBlocks == 3

\* a block as a BGZF writer lays it out: extra is the list of subfields
\* [id, len], cdata the size of the deflate payload, isize the
\* uncompressed size
BgzfBlock(extra, cdata, isize) ==
    LET xlen == SumSeq([i \in DOMAIN extra |-> 4 + extra[i].len])
    IN  [extra |-> extra, xlen |-> xlen, bsize |-> 12 + xlen + cdata + 8 - 1,
         cdata |-> cdata, isize |-> isize]

\* a faulty variant of DeflateSize: BSIZE + 1 taken for BSIZE
DeflateSizeOffByOne(block_size, extra_len) == block_size - extra_len - 19

\* deflate_size = block_size - 1 - extra_len - 19
DeflateSize(block_size, extra_len) == block_size - 1 - extra_len - 19

\* _quick_bgzf_load(handle) with the handle at byte pos of f: StopIteration
\* when no byte is left, else block_size, expected_size and the position of
\* the handle afterwards; a read that does not start at a block start or
\* does not end at the block's trailer finds other bytes than it expects
quick_bgzf_load(f, pos) ==
    LET bytes(b) == 12 + b.xlen + b.cdata + 8
        start(i) == SumSeq([j \in 1..(i - 1) |-> bytes(f[j])])
    IN  IF pos >= start(Len(f) + 1) THEN [stop |-> TRUE, error |-> ""]
        ELSE IF ~\E i \in DOMAIN f : start(i) = pos
        THEN [stop |-> FALSE, error |-> "ValueError"]
        ELSE LET b == f[CHOOSE i \in DOMAIN f : start(i) = pos]
                 extra_len == b.xlen
                 x_len == SumSeq([i \in DOMAIN b.extra |-> b.extra[i].len + 4])
                 block_size == b.bsize + 1
                 deflate_size == DeflateSize(block_size, extra_len)
                 trailer == pos + 12 + x_len + deflate_size
             IN  IF \A i \in DOMAIN b.extra : b.extra[i].id # "BC"
                 THEN [stop |-> FALSE, error |-> "MissingBC"]
                 ELSE [stop |-> FALSE, error |-> "",
                       block_size |-> block_size,
                       expected_size |-> IF trailer = pos + bytes(b) - 8 THEN b.isize ELSE -1,
                       tell |-> trailer + 8]

\* BGZF files of 1..MaxScanBlocks blocks; the BC subfield alone, or with
\* another subfield before or after it
ScanInit ==
    /\ \E n \in 1..MaxScanBlocks :
          bam \in [1..n -> {BgzfBlock(extra, cdata, isize) :
                              extra \in {<<[id |-> "BC", len |-> 2]>>,
                                         <<[id |-> "XX", len |-> 1], [id |-> "BC", len |-> 2]>>,
                                         <<[id |-> "BC", len |-> 2], [id |-> "XX", len |-> 0]>>},
                              cdata \in 2..3, isize \in 0..1}]
    /\ pc = "scan"
    /\ w = [tell |-> 0, data_start |-> 0]
    /\ results = <<>>
    /\ files = <<>>
    /\ num_chunks = 0
    /\ chunks = NoPlan
    /\ num_processes = 0
    /\ all_params = <<>>
    /\ wid = 0
    /\ final = Idle
    /\ minimum_count = 0

\* one turn of "while True" in FastBgzfBlocks; results holds the tuples
\* yielded so far
ScanBlock ==
    /\ pc = "scan"
    /\ LET start_offset == w.tell
           loaded == quick_bgzf_load(bam, w.tell)
       IN  IF loaded.stop
           THEN pc' = "scanned" /\ UNCHANGED <<w, results>>
           ELSE IF loaded.error # ""
           THEN pc' = "scan_error" /\ UNCHANGED <<w, results>>
           ELSE /\ results' = Append(results, <<start_offset, loaded.block_size,
                                                w.data_start, loaded.expected_size>>)
                /\ w' = [tell |-> loaded.tell,
                         data_start |-> w.data_start + loaded.expected_size]
                /\ pc' = pc
    /\ UNCHANGED <<bam, num_chunks, num_processes, chunks, files, all_params, wid,
                   final, minimum_count>>

SpecScan == ScanInit /\ [][ScanBlock]_vars

-----------------------------------------------------------------------------
(* Properties of split_bam (SpecSplit).                                    *)

\* the alignments pysam streams from each sub-BAM split_bam wrote
ChunkStreams == [i \in 1..Len(files) |-> StreamAlignments(files[i])]

\* the read names of a stream of the single-sample code
Names(stream) == {stream[i].qname : i \in DOMAIN stream}

\* C1: once split_bam has planned N chunks and chunk_file has written every
\* one of them, there are N sub-BAMs and their alignments, concatenated in
\* planner order, are the alignments of the source BAM: nothing is lost,
\* nothing is duplicated, the order is kept.
C1_SplitIsExact ==
    pc = "done" =>
        /\ Len(files) = num_chunks
        /\ Concat(ChunkStreams) = StreamAlignments(bam)

\* C2: no read name has alignments in two different sub-BAMs of a plan.
C2_ReadInOneChunk ==
    pc = "done" =>
        \A i, j \in 1..Len(files) :
            i # j => Names(ChunkStreams[i]) \cap Names(ChunkStreams[j]) = {}

-----------------------------------------------------------------------------
(* Properties of the single-sample conversion (SpecSingle).                *)

\* process_piece's loop over a whole stream
RECURSIVE PieceStream(_, _)
PieceStream(l, stream) ==
    IF stream = <<>> THEN l
    ELSE PieceStream(PieceAlignment(l, Head(stream)), Tail(stream))

\* the EC table of the whole unsplit BAM aggregated in one pass
WholeFileEc(f) ==
    PieceEndOfFile(PieceStream([PieceLocals(f, <<0>>) EXCEPT !.sam_file = HeaderOf(f)],
                               StreamAlignments(f))).ec

\* the alignments of the chunks as planned, cut out by chunk_file
PlannedStreams ==
    [i \in 1..Len(chunks.recs) |-> StreamAlignments(chunk_file(bam, chunks.recs[i]).file)]

\* the chunks hold the alignments of the source, each once and in order
SplitExact == chunks.kind = "plan" /\ Concat(PlannedStreams) = StreamAlignments(bam)

\* every alignment of the source is mapped
AllMapped == \A i \in DOMAIN StreamAlignments(bam) : ~StreamAlignments(bam)[i].is_unmapped

SameCounts(a, b) ==
    \A key \in Range(Keys(a)) \cup Range(Keys(b)) : GetOr(a, key, 0) = GetOr(b, key, 0)

\* C3: after the single-sample convert has merged the results of its
\* workers, the merged count of every ec_key is the count the key gets when
\* the whole BAM is aggregated in one pass.  Stated for sources whose
\* alignments are all mapped and whose chunks hold every alignment of the
\* source exactly once, so that the aggregation alone decides.
C3_ChunkedEqualsWhole ==
    (pc = "s_done" /\ SplitExact /\ AllMapped) => SameCounts(final.ec, WholeFileEc(bam))

-----------------------------------------------------------------------------
(* Properties of both conversions (Spec).                                  *)

SingleMode ==
    pc \in {"s_plan", "s_crash", "s_spawn", "s_chunk", "s_read", "s_return", "s_merge", "s_done"}

\* a paired alignment that is read 2, is not a proper pair, has its mate on
\* another reference, or has a negative mate position
SkippedPair(a) ==
    /\ a.is_paired
    /\ \/ a.is_read2
       \/ ~a.is_proper_pair
       \/ a.reference_id # a.next_reference_id
       \/ a.next_reference_start < 0

Skipped(a) == a.is_unmapped \/ (~SingleMode /\ SkippedPair(a))

\* the read an alignment belongs to, and its tid as a string
ReadName(a) == IF SingleMode THEN a.qname ELSE a.query_name.id
TidStr(a) == str(IF SingleMode THEN a.tid ELSE a.reference_id)

\* the streams worker i read: its chunks in order, or its sample BAM
InputStreams(i) ==
    IF SingleMode
    THEN [j \in 1..Len(all_params[i]) |->
            StreamAlignments(chunk_file(bam, chunks.recs[all_params[i][j] + 1]).file)]
    ELSE <<StreamAlignments(all_params[i])>>

\* the reads of a stream that have a counted alignment, and the tids of
\* the counted alignments of one of them
ReadsOf(stream) == {ReadName(stream[k]) : k \in {k \in DOMAIN stream : ~Skipped(stream[k])}}
TidsOfRead(stream, r) ==
    {TidStr(stream[k]) : k \in {k \in DOMAIN stream : ~Skipped(stream[k]) /\ ReadName(stream[k]) = r}}

\* the distinct tid strings T in string order, joined by commas
RECURSIVE CanonKey(_)
CanonKey(T) ==
    IF T = {} THEN <<>>
    ELSE LET m == CHOOSE x \in T : \A y \in T \ {x} : StrLess(x, y)
         IN  IF T = {m} THEN m ELSE m \o <<",">> \o CanonKey(T \ {m})

\* C4: every EC key a worker returns is the key of a read of its input:
\* the comma-join of the distinct tid strings of that read's counted
\* alignments, sorted as strings.
C4_KeyOfARead ==
    \A i \in DOMAIN results :
        \A key \in Range(Keys(results[i].ec)) :
            \E j \in DOMAIN InputStreams(i) :
                \E r \in ReadsOf(InputStreams(i)[j]) :
                    key = CanonKey(TidsOfRead(InputStreams(i)[j], r))

\* the sum of all the counts of an EC table
TotalCount(ec) ==
    SumSeq([k \in DOMAIN ec |->
              IF SingleMode THEN ec[k].v
              ELSE SumSeq([m \in DOMAIN ec[k].v |-> ec[k].v[m].v])])

\* C5: in the EC table a worker returns, every read of its input that has
\* a counted alignment has added exactly 1, the last read of a stream
\* included: the counts sum up to the number of such reads.
C5_OneCountPerRead ==
    \A i \in DOMAIN results :
        TotalCount(results[i].ec) =
            SumSeq([j \in DOMAIN InputStreams(i) |-> Cardinality(ReadsOf(InputStreams(i)[j]))])

\* the partial results the merge has consumed, and the table as merged
\* (the minimum-count filter not yet run)
Consumed == SubSeq(results, 1, final.n)
Unfiltered(fin) == "filtered" \notin DOMAIN fin \/ ~fin.filtered

\* the keys of an EC table: <<ec_key, "">>, or <<ec_key, CR>> in multi-sample
Pairs(ec) ==
    IF SingleMode THEN {<<ec[k].k, "">> : k \in DOMAIN ec}
    ELSE UNION {{<<ec[k].k, ec[k].v[m].k>> : m \in DOMAIN ec[k].v} : k \in DOMAIN ec}

PairCount(ec, p) ==
    IF SingleMode THEN GetOr(ec, p[1], 0) ELSE GetOr(GetOr(ec, p[1], <<>>), p[2], 0)

\* C6: whatever partial results the merge has consumed, the merged count of
\* every ec_key (single-sample) and of every (ec_key, CR) pair (multi-
\* sample) is the sum of its counts over the consumed results, and the
\* merged keys are the union of the keys of the consumed results.
C6_MergedIsSum ==
    Unfiltered(final) =>
        /\ Pairs(final.ec) = UNION {Pairs(Consumed[i].ec) : i \in DOMAIN Consumed}
        /\ Range(Keys(final.ec)) = UNION {Range(Keys(Consumed[i].ec)) : i \in DOMAIN Consumed}
        /\ \A p \in Pairs(final.ec) :
              PairCount(final.ec, p) =
                  SumSeq([i \in DOMAIN Consumed |-> PairCount(Consumed[i].ec, p)])

\* two single-sample results that share a key have been merged
C6_Witness ==
    /\ pc = "s_done"
    /\ final.n >= 2
    /\ \E key \in Range(Keys(results[1].ec)) : Has(results[2].ec, key) /\ Get(final.ec, key) >= 2

\* ec_idx maps the keys of ec, one to one, to their insertion positions
IdxOK(ec, ec_idx) ==
    /\ Len(ec_idx) = Len(ec)
    /\ \A i \in DOMAIN ec : Has(ec_idx, ec[i].k) /\ Get(ec_idx, ec[i].k) = i - 1

\* every index of a is the same in b
IdxKept(a, b) == \A i \in DOMAIN a : Has(b, a[i].k) /\ Get(b, a[i].k) = a[i].v

\* C7: while alignments are aggregated and results are merged, ec_idx maps
\* the keys of the EC table one to one onto 0..|EC|-1, each key to its
\* insertion position, and no step changes an index once it is assigned.
C7_EcIdxIsPosition ==
    [][/\ Unfiltered(final') => IdxOK(final'.ec, final'.ec_idx)
       /\ "ec_idx" \in DOMAIN w' => IdxOK(w'.ec, w'.ec_idx)
       /\ pc # "m_filter" => IdxKept(final.ec_idx, final'.ec_idx)
       /\ ("ec_idx" \in DOMAIN w /\ "ec_idx" \in DOMAIN w') => IdxKept(w.ec_idx, w'.ec_idx)]_vars

\* a later result has added a new key behind the keys of the first result
C7_Witness ==
    /\ pc = "s_done"
    /\ final.n >= 2
    /\ Len(results[1].ec_idx) >= 1
    /\ Len(final.ec_idx) > Len(results[1].ec_idx)

\* C8: a skipped alignment (unmapped, or in multi-sample a paired alignment
\* that is read 2, not a proper pair, with a mate on another reference or
\* with a negative mate position) changes nothing of the aggregator but the
\* all-alignments counter: the EC table, the current read name, the tid
\* list, the unique-read table and the ranges stay as they are.
C8_SkippedChangesNothing ==
    [][(pc \in {"s_read", "m_read"} /\ w.stream # <<>> /\ Skipped(Head(w.stream)))
          => w' = [w EXCEPT !.all_alignments = @ + 1, !.stream = Tail(@)]]_vars

\* the multi-sample aggregator has just skipped a paired alignment, with
\* counted alignments behind it
C8_Witness ==
    /\ pc = "m_read"
    /\ w.valid_alignments >= 1
    /\ w.all_alignments >= 2
    /\ LET a == StreamAlignments(all_params[wid])[w.all_alignments]
       IN  ~a.is_unmapped /\ SkippedPair(a)

\* the step in which the minimum-count filter runs
FilterStep == pc = "m_filter" /\ final'.filtered

\* the total of a CR over all the ECs of a table
CRTotal(ec, cr) == SumSeq([k \in DOMAIN ec |-> GetOr(ec[k].v, cr, 0)])

\* C9: when the minimum-count filter has run with min_count > 0, every CR
\* of the CR table has a total (over the ECs of the merged table) of at
\* least min_count, every EC left has a retained CR and only retained CRs,
\* every (EC, CR) pair with a retained CR is there with its count
\* unchanged, and the ECs left are indexed 0..k-1 in their previous order.
C9_FilterKeepsTheRest ==
    [][FilterStep =>
        LET old == final.ec
            new == final'.ec
            CRS == final'.CRS
        IN  /\ minimum_count > 0
            /\ \A c \in DOMAIN CRS : CRTotal(old, CRS[c].k) >= minimum_count
            /\ \A k \in DOMAIN new :
                  /\ new[k].v # <<>>
                  /\ Has(old, new[k].k)
                  /\ \A m \in DOMAIN new[k].v :
                        /\ Has(CRS, new[k].v[m].k)
                        /\ GetOr(Get(old, new[k].k), new[k].v[m].k, 0) = new[k].v[m].v
            /\ \A k \in DOMAIN old : \A m \in DOMAIN old[k].v :
                  Has(CRS, old[k].v[m].k) =>
                      GetOr(GetOr(new, old[k].k, <<>>), old[k].v[m].k, 0) = old[k].v[m].v
            /\ IdxOK(new, final'.ec_idx)
            /\ \A i, j \in DOMAIN new :
                  i < j => IndexOf(Keys(old), new[i].k) < IndexOf(Keys(old), new[j].k)]_vars

\* the filter has dropped an EC and kept another
C9_Witness ==
    /\ pc = "m_done"
    /\ final.filtered
    /\ Len(final.ec) >= 1
    /\ Len(final.ec) < Len(final.ec_totals)

\* the CRs of the results in the order the merge sees them first
RECURSIVE FirstOccurrences(_)
FirstOccurrences(s) ==
    IF s = <<>> THEN <<>>
    ELSE LET d == FirstOccurrences(SubSeq(s, 1, Len(s) - 1))
         IN  IF In(Last(s), d) THEN d ELSE Append(d, Last(s))

SeenCRs ==
    FirstOccurrences(Concat([i \in DOMAIN results |->
        Concat([k \in DOMAIN results[i].ec |-> Keys(results[i].ec[k].v)])]))

\* C10: after the minimum-count filter the CR table holds exactly the CRs
\* whose merged total is at least min_count, indexed 0, 1, ... in the order
\* in which the merge saw them first.
C10_FilteredCRTable ==
    [][FilterStep =>
        LET Enough(cr) == CRTotal(final.ec, cr) >= minimum_count
        IN  /\ Keys(final'.CRS) = SelectSeq(SeenCRs, Enough)
            /\ \A c \in DOMAIN final'.CRS : final'.CRS[c].v = c - 1]_vars

\* the filter has dropped a CR and kept one whose total is just min_count
C10_Witness ==
    /\ pc = "m_done"
    /\ final.filtered
    /\ Len(final.CRS) < Len(final.cr_totals)
    /\ \E c \in DOMAIN final.CRS : Get(final.cr_totals, final.CRS[c].k) = minimum_count

\* C11: when the multi-sample merge has consumed every result, and before
\* any minimum-count filter, the CR table holds every CR of the results and
\* maps each to its first-seen position 0, 1, ...: an index given while an
\* earlier result was consumed is not changed by a later result.
C11_CRIndexIsFirstSeen ==
    pc = "m_filter" =>
        /\ Keys(final.CRS) = SeenCRs
        /\ \A c \in DOMAIN final.CRS : final.CRS[c].v = c - 1

\* the last counted alignment among the first n of a stream
RECURSIVE LastCounted(_, _)
LastCounted(stream, n) ==
    IF n = 0 THEN [none |-> TRUE]
    ELSE IF ~Skipped(stream[n]) THEN stream[n]
    ELSE LastCounted(stream, n - 1)

UpToSpace(name) == <<name.id, name.cr>>

\* C13: the multi-sample aggregator coalesces consecutive counted
\* alignments whose names are equal up to the first space: reading an
\* alignment of the read that the last counted alignment belongs to closes
\* no read (the EC table and the number of read changes stay as they are),
\* for every read of the stream.
C13_SameNameUpToSpace ==
    [][(pc = "m_read" /\ w.stream # <<>> /\ ~Skipped(Head(w.stream))) =>
        LET prev == LastCounted(StreamAlignments(all_params[wid]), w.all_alignments)
        IN  ("query_name" \in DOMAIN prev
               /\ UpToSpace(prev.query_name) = UpToSpace(Head(w.stream).query_name))
                => /\ w'.ec = w.ec
                   /\ w'.read_id_switch_counter = w.read_id_switch_counter]_vars

-----------------------------------------------------------------------------
(* Properties of the reference names (SpecSingle).                         *)

\* the name ends in "_" and a non-empty haplotype
HasHaplotypeSuffix(name) == \E i \in DOMAIN name : name[i] = "_" /\ i < Len(name)

\* process_piece is about to read a mapped alignment whose reference name
\* has no haplotype suffix
MissingSuffixNext ==
    /\ pc = "s_read"
    /\ w.stream # <<>>
    /\ ~Head(w.stream).is_unmapped
    /\ ~HasHaplotypeSuffix(getrname(w.sam_file, Head(w.stream).tid))

-----------------------------------------------------------------------------
(* Properties of the haplotype bitmask (Spec).                             *)

Pow2(h) == 2 ^ h

\* the tids an EC key lists
TidsOfKey(key) == {t \in 0..(Len(References) - 1) : In(str(t), split(key, ","))}

\* the key and the main target an emitted (ec_idx, main_target) pair is about
KeyOfIdx(ec_idx, i) == ec_idx[CHOOSE j \in DOMAIN ec_idx : ec_idx[j].v = i].k
TargetOfIdx(main_targets, i) == main_targets[CHOOSE j \in DOMAIN main_targets : main_targets[j].v = i].k

\* sum of 2^h over the haplotypes h (0-based position in the sorted list)
\* whose reference "<main_target>_<haplotype h>" has its tid in the key
ExpectedMask(refs, haplotypes, main_target, key) ==
    SumSeq([i \in DOMAIN haplotypes |->
               IF \E t \in TidsOfKey(key) : refs[t + 1] = main_target \o <<"_">> \o haplotypes[i]
               THEN Pow2(i - 1) ELSE 0])

\* the haplotype list is the sorted list of its members
IsSorted(haplotypes) == haplotypes = SortedSet(Range(haplotypes))

-----------------------------------------------------------------------------
(* Properties of the EOF block (SpecSplit).                                *)

\* the file ends with the EOF block and holds it nowhere else
OneEofAtEnd(f) ==
    /\ EndsWithEof(f)
    /\ \A j \in 1..(Len(f) - 1) : f[j].kind # "eof"

\* C16: every sub-BAM chunk_file emits, for any ParseRecord of the planner,
\* ends with the 28-byte BGZF EOF block and contains that block nowhere
\* else.
C16_OneEofAtEnd == \A i \in DOMAIN files : OneEofAtEnd(files[i])

-----------------------------------------------------------------------------
(* Properties of fix_bam (SpecFix).                                        *)

\* f is the first part of g, byte for byte
IsPrefix(f, g) == Len(f) <= Len(g) /\ SubSeq(g, 1, Len(f)) = f

\* the last 28 bytes of f are the EOF marker
LastBytesAreEof(f) == f # <<>> /\ Last(f).kind = "eof"

\* C17: fix_bam on a BAM-signature file whose last 28 bytes are not the EOF
\* marker appends exactly the 28-byte marker (the file grows by 28 bytes,
\* the earlier bytes are unchanged); on a file that ends with the marker
\* it changes nothing, so a second call is a no-op.
C17_FixBamAppendsOnce ==
    \A i \in DOMAIN files :
       LET before == files[i]
           after == IF i < Len(files) THEN files[i + 1] ELSE bam
       IN  /\ LastBytesAreEof(after)
           /\ IF LastBytesAreEof(before)
              THEN after = before
              ELSE /\ FileSize(after) = FileSize(before) + 28
                   /\ IsPrefix(before, after)
           /\ i > 1 => after = before

\* a file without the marker has been repaired, and repaired again
C17_Witness ==
    /\ pc = "fix"
    /\ Len(files) = 2
    /\ ~LastBytesAreEof(files[1])
    /\ FileSize(files[2]) = FileSize(files[1]) + 28
    /\ bam = files[2]

-----------------------------------------------------------------------------
(* Properties of the error handling (SpecFaulty).                          *)

\* the worker's exception, "" when it raised none
WorkerError(l) == IF "error" \in DOMAIN l THEN l.error ELSE ""

\* C18: a BAM input that lacks the trailing 28-byte EOF marker is tolerated
\* in every mode: the conversion goes on, the input is never rejected with
\* an error.
C18_MissingEofTolerated ==
    (\E i \in DOMAIN files : ~EndsWithEof(files[i])) =>
        ~(pc = "m_crash" /\ WorkerError(w) = "bad EOF")

\* C19: when one of several workers ends with a fatal error (an exception
\* that leaves the worker function), the coordinator goes on with the
\* other workers and to the output instead of stopping.
C19_CoordinatorContinues ==
    [][(pc \in {"m_spawn", "m_read", "s_spawn", "s_chunk", "s_read"}
          /\ Len(all_params) > 1
          /\ WorkerError(w) = "" /\ WorkerError(w') # "")
        => pc' \notin {"m_crash", "s_crash"}]_vars

\* C20: an exception other than the end of the stream, raised while the
\* alignments are streamed, is caught inside the worker, which returns the
\* partial result it has; in the single-sample and in the multi-sample
\* aggregator.
C20_StreamErrorReturnsPartial ==
    [][/\ (pc = "s_read" /\ WorkerError(w') # "") => pc' = "s_return"
       /\ (pc = "s_return" /\ WorkerError(w) # "") => results' = Append(results, PieceResult(w))
       /\ (pc = "m_read" /\ WorkerError(w') # "")
             => pc' = "m_merge" /\ results' = Append(results, ConvertResult(w'))]_vars

(***************************************************************************)
(* Properties of the order of the merge (Spec).                            *)
(***************************************************************************)
\* the orders in which n results can be consumed
Perms(n) == {p \in [1..n -> 1..n] : \A i, j \in 1..n : p[i] = p[j] => i = j}

\* the merge of the results rs, in their order, into the empty final
RECURSIVE MergeAll(_, _)
MergeAll(fin, rs) ==
    IF rs = <<>> THEN fin
    ELSE MergeAll(IF SingleMode THEN CombineResult(fin, Head(rs))
                  ELSE CombineConvert(fin, Head(rs)),
                  Tail(rs))

MergeInOrder(p) ==
    MergeAll(IF SingleMode THEN SingleFinal ELSE MultiFinal,
             [i \in DOMAIN Consumed |-> Consumed[p[i]]])

AsSet(d) == {<<d[i].k, d[i].v>> : i \in DOMAIN d}

\* the totals and key sets of a merged table
SameTotals(a, b) ==
    /\ Pairs(a.ec) = Pairs(b.ec)
    /\ \A q \in Pairs(a.ec) : PairCount(a.ec, q) = PairCount(b.ec, q)
    /\ Range(Keys(a.ec)) = Range(Keys(b.ec))
    /\ ~SingleMode =>
          /\ AsSet(a.ec_totals) = AsSet(b.ec_totals)
          /\ AsSet(a.cr_totals) = AsSet(b.cr_totals)
          /\ Range(Keys(a.CRS)) = Range(Keys(b.CRS))

\* C21: for the partial results the merge has consumed, the merged count of
\* every EC (and EC, CR pair), the total of every EC and of every CR and
\* the sets of EC keys and of CR keys are the same for every order in which
\* the results could have been consumed.
C21_TotalsIgnoreOrder ==
    Unfiltered(final) => \A p \in Perms(final.n) : SameTotals(final, MergeInOrder(p))

\* two different results have been merged, and the other order gives other
\* ec_idx values (multi-sample conversion, a CR counted twice or more)
C21_Witness ==
    /\ final.n = 2 /\ Unfiltered(final)
    /\ ~SingleMode
    /\ results[1].ec # <<>> /\ results[2].ec # <<>>
    /\ MergeInOrder(<<2, 1>>).ec_idx # final.ec_idx
    /\ \E c \in Range(Keys(final.cr_totals)) : Get(final.cr_totals, c) >= 2

-----------------------------------------------------------------------------
(* Properties of the main-targets table (SpecTargets).                     *)

\* a reference name without its haplotype suffix: what is before its last "_"
Stem(name) ==
    SubSeq(name, 1, (CHOOSE i \in DOMAIN name :
                        name[i] = "_" /\ \A j \in DOMAIN name : j > i => name[j] # "_") - 1)

\* the table holds every main target of the header once, with its rank in
\* alphabetical order as its index
IsRankTable(table, refs) ==
    LET stems == {Stem(refs[i]) : i \in DOMAIN refs}
    IN  /\ Range(Keys(table)) = stems
        /\ Len(table) = Cardinality(stems)
        /\ \A i \in DOMAIN table :
              table[i].v = Cardinality({s \in stems : StrLess(s, table[i].k)})

\* C22: without a targets file, the main-targets table holds the reference
\* names of the header without their haplotype suffix, each once, indexed by
\* its rank in alphabetical order; in the single-sample and in the
\* multi-sample conversion.
C22_MainTargetsSorted ==
    pc \in {"t_single", "t_multi"} => IsRankTable(final.main_targets, references(bam))

\* the same for the single-sample conversion alone
SingleTargetsSorted == pc = "t_single" => IsRankTable(final.main_targets, references(bam))

-----------------------------------------------------------------------------
(* Properties of the range tracking (Spec).                                *)

\* the reference_start values of the counted alignments on tid t, over all
\* the sample BAMs
StartsOn(t) ==
    UNION {{StreamAlignments(files[i])[k].reference_start :
               k \in {k \in DOMAIN StreamAlignments(files[i]) :
                        /\ ~Skipped(StreamAlignments(files[i])[k])
                        /\ TidStr(StreamAlignments(files[i])[k]) = t}} :
           i \in DOMAIN files}

AllMerged == pc \in {"m_filter", "m_done"} /\ final.n = Len(files)

\* C23: with range tracking on, once every result is merged the range of a
\* tid is (minimum, maximum) of the reference_start values of the counted
\* alignments on it over all the input files, and a tid without a counted
\* alignment has no range.
C23_RangeIsMinMax ==
    AllMerged =>
        \A tid \in 0..(Len(References) - 1) :
            IF StartsOn(str(tid)) = {}
            THEN ~Has(final.tid_ranges, str(tid))
            ELSE /\ Has(final.tid_ranges, str(tid))
                 /\ \A s \in StartsOn(str(tid)) :
                       /\ Get(final.tid_ranges, str(tid))[1] <= s
                       /\ s <= Get(final.tid_ranges, str(tid))[2]
                 /\ Get(final.tid_ranges, str(tid))[1] \in StartsOn(str(tid))
                 /\ Get(final.tid_ranges, str(tid))[2] \in StartsOn(str(tid))

\* two sample BAMs with counted alignments on the same tid, the later file
\* holding the minimum, and a tid whose only alignment was skipped
C23_Witness ==
    /\ AllMerged
    /\ Len(files) = 2
    /\ \E t \in {"2", "10"} :
          /\ Has(results[1].tid_ranges, t) /\ Has(results[2].tid_ranges, t)
          /\ Get(results[2].tid_ranges, t)[1] < Get(results[1].tid_ranges, t)[1]
          /\ Get(final.tid_ranges, t)[1] < Get(final.tid_ranges, t)[2]
    /\ \E t \in {"2", "10"} :
          /\ ~Has(final.tid_ranges, t)
          /\ \E i \in DOMAIN files : \E k \in DOMAIN StreamAlignments(files[i]) :
                TidStr(StreamAlignments(files[i])[k]) = t

-----------------------------------------------------------------------------
(* Properties of the temp sub-BAMs (SpecSingle).                           *)

\* the chunk ids whose temp file is on disk
OnDisk == {i - 1 : i \in {i \in DOMAIN files : files[i] # <<>>}}

\* the chunk ids whose temp file a step creates or deletes
Touched ==
    {i - 1 : i \in {i \in DOMAIN files' : i > Len(files) \/ files'[i] # files[i]}}

TempFilesOwned ==
    [][SingleMode /\ pc # "s_plan" =>
          /\ \A idx \in Touched :
                /\ In(idx, all_params[wid])
                /\ \A other \in DOMAIN all_params \ {wid} : ~In(idx, all_params[other])
          /\ (pc' = "s_return" /\ WorkerError(w') = "")
                => \A idx \in Range(all_params[wid]) : idx \notin OnDisk']_vars

-----------------------------------------------------------------------------
(* Properties of the plan of one chunk (SpecSingle).                       *)

\* C25: for N = 1 the plan is one descriptor of the whole file that
\* chunk_file accepts, so that the worker gets a sub-BAM of every alignment
\* and a conversion with one chunk ends with the EC table of the whole
\* file, not with an error or an empty table.
C25_OneChunkIsWholeFile ==
    chunks.kind = "whole" =>
        /\ Len(chunks.recs) = 1
        /\ pc = "s_return" => WorkerError(w) = ""
        /\ pc = "s_done" => SameCounts(final.ec, WholeFileEc(bam))

-----------------------------------------------------------------------------
(* Properties of the plan (SpecSplit).                                     *)

\* the adjusted boundaries of the plan asked for, as (block start, offset
\* within the block) pairs; boundary 1 is the end of the header
Boundaries ==
    [i \in 1..num_chunks |-> split_virtual_offset(PartitionedOffset(bam, num_chunks, i - 1))]

\* every boundary was found, and its block is not the last one of the file
BoundariesFound ==
    \A i \in 1..num_chunks :
        /\ PartitionedOffset(bam, num_chunks, i - 1) # NoVO
        /\ BlockAt(bam, Boundaries[i][1]) < Len(bam)

\* C26: when the adjusted boundary of a middle chunk is at offset 0 of a
\* BGZF block, the planner still returns all N ParseRecords, and the chunk
\* that starts at that boundary has no leading partial read.
C26_BlockBoundaryKeepsPlan ==
    (pc # "plan" /\ num_chunks >= 3 /\ BoundariesFound) =>
        \A i \in 2..(num_chunks - 1) :
            Boundaries[i][2] = 0 =>
                /\ chunks.kind = "plan"
                /\ Len(chunks.recs) = num_chunks
                /\ chunks.recs[i].begin_read_size = 0


\* what the raw-copy step of chunk_file appends for a ParseRecord, to a new
\* file that holds the header so far
RawCopied(rec) ==
    LET new == bytes_from_file(bam, 0, rec.header_size)
        out == bytes_from_file_bam(bam, new, rec.file_offset, rec.file_bytes)
    IN  SubSeq(out, Len(new) + 1, Len(out))

\* C27: the raw-copy step appends the source bytes [file_offset,
\* file_offset + file_bytes) for every file_bytes >= 0 of a plan, nothing
\* when file_bytes is 0; file_bytes = -1, which the planner gives the last
\* chunk and is its only negative value, copies to the end of the file.
C27_RawCopyIsTheRange ==
    chunks.kind = "plan" =>
        \A i \in DOMAIN chunks.recs :
            LET rec == chunks.recs[i]
            IN  /\ rec.file_bytes >= 0 \/ (rec.file_bytes = -1 /\ i = Len(chunks.recs))
                /\ rec.file_bytes >= 0 =>
                      RawCopied(rec) = RawRange(bam, rec.file_offset,
                                                rec.file_offset + rec.file_bytes)
                /\ rec.file_bytes = 0 => RawCopied(rec) = <<>>
                /\ rec.file_bytes = -1 =>
                      RawCopied(rec) = RawRange(bam, rec.file_offset, FileSize(bam))

\* the same for the plans whose file_bytes are positive, or -1 in the last
\* record
RawCopyOfPositive ==
    (chunks.kind = "plan" /\ \A i \in DOMAIN chunks.recs :
                                \/ chunks.recs[i].file_bytes > 0
                                \/ (chunks.recs[i].file_bytes = -1 /\ i = Len(chunks.recs)))
        => \A i \in DOMAIN chunks.recs :
              LET rec == chunks.recs[i]
              IN  RawCopied(rec) = RawRange(bam, rec.file_offset,
                                            IF rec.file_bytes > 0
                                            THEN rec.file_offset + rec.file_bytes
                                            ELSE FileSize(bam))


\* records a and b, one after the other in a plan, share the block of the
\* boundary between them: the trailing read of a starts at offset 0 of the
\* block in which the leading read of b starts, the two reads meet and
\* make up the block, the raw range of a ends at the start of the block
\* and that of b starts at the block after it
Tiled(a, b) ==
    LET end_read == split_virtual_offset(a.end_read_offset)
        begin_read == split_virtual_offset(b.begin_read_offset)
        block == BlockAt(bam, begin_read[1])
    IN  /\ block # 0
        /\ end_read = <<begin_read[1], 0>>
        /\ a.end_read_size = begin_read[2]
        /\ a.end_read_size + b.begin_read_size = DataLen(bam[block])
        /\ a.file_offset + a.file_bytes = RawStart(bam, block)
        /\ b.file_offset = RawStart(bam, block + 1)

\* C28: in a plan of N >= 2 records, consecutive records tile the block of
\* their common boundary without gap or overlap (Tiled); the first record
\* has no leading partial read, the last has no trailing one and
\* file_bytes = -1.
C28_RecordsTileBoundaryBlocks ==
    (chunks.kind = "plan" /\ Len(chunks.recs) >= 2) =>
        /\ \A i \in 1..(Len(chunks.recs) - 1) : Tiled(chunks.recs[i], chunks.recs[i + 1])
        /\ chunks.recs[1].begin_read_offset = 0 /\ chunks.recs[1].begin_read_size = 0
        /\ Last(chunks.recs).end_read_offset = 0 /\ Last(chunks.recs).end_read_size = 0
        /\ Last(chunks.recs).file_bytes = -1

\* a plan of three records whose middle record has a leading read, a raw
\* range and a trailing read
C28_Witness ==
    /\ chunks.kind = "plan" /\ Len(chunks.recs) = 3
    /\ chunks.recs[2].begin_read_size > 0
    /\ chunks.recs[2].file_bytes > 0
    /\ chunks.recs[2].end_read_size > 0
    /\ split_virtual_offset(chunks.recs[2].end_read_offset)[1] > chunks.recs[2].file_offset

-----------------------------------------------------------------------------
(* Properties of the unique-read table (SpecSingle).                       *)

\* the mapped alignments of read name r in the chunks of the running worker
MappedOf(r) ==
    LET stream == Concat(InputStreams(wid))
    IN  Cardinality({k \in DOMAIN stream : ~stream[k].is_unmapped /\ stream[k].qname = r})

\* C30: when a single-sample worker has streamed its chunks, unique_reads
\* maps every read name that has a mapped alignment, the last read of the
\* stream included, to the number of its mapped alignments, and the merge
\* adds these tallies up per read name.
C30_UniqueReadsTally ==
    /\ (pc = "s_return" /\ WorkerError(w) = "") =>
          \A r \in 1..MaxSingleAlns : GetOr(w.unique_reads, r, 0) = MappedOf(r)
    /\ pc = "s_done" =>
          \A r \in 1..MaxSingleAlns :
              GetOr(final.unique_reads, r, 0) =
                  SumSeq([i \in DOMAIN results |-> GetOr(results[i].unique_reads, r, 0)])

\* the merge half of C30 alone
UniqueReadsMerged ==
    pc = "s_done" =>
        \A r \in 1..MaxSingleAlns :
            GetOr(final.unique_reads, r, 0) =
                SumSeq([i \in DOMAIN results |-> GetOr(results[i].unique_reads, r, 0)])

-----------------------------------------------------------------------------
(* Properties of the BGZF index scanner (SpecScan).                        *)

\* the bytes block i of the scanned file takes on disk, and where it starts
BytesOf(i) == 12 + SumSeq([k \in DOMAIN bam[i].extra |-> 4 + bam[i].extra[k].len]) + bam[i].cdata + 8
StartOf(i) == SumSeq([j \in 1..(i - 1) |-> BytesOf(j)])

\* C29: the scanner yields one tuple per block, in order: raw_start is the
\* start of the block and, from the second tuple on, raw_start plus
\* block_length of the tuple before; block_length is 12 header bytes +
\* extra_len + deflate_size + 8 trailer bytes; data_len is the block's
\* uncompressed size and data_start the sum of the data_len before it; the
\* scan ends without an error when no byte is left at a block start.
C29_ScannerAdvancesByBlock ==
    /\ pc # "scan_error"
    /\ Len(results) <= Len(bam)
    /\ pc = "scanned" => Len(results) = Len(bam)
    /\ \A k \in DOMAIN results :
          /\ results[k][1] = StartOf(k)
          /\ results[k][2] = BytesOf(k)
          /\ results[k][3] = SumSeq([j \in 1..(k - 1) |-> results[j][4]])
          /\ results[k][4] = bam[k].isize
          /\ k > 1 => results[k][1] = results[k - 1][1] + results[k - 1][2]

\* the scan of three blocks of different lengths is over
C29_Witness ==
    /\ pc = "scanned"
    /\ Len(results) = 3
    /\ results[1][2] # results[2][2]
    /\ results[2][2] # results[3][2]
    /\ results[3][3] = 2
=============================================================================
